---- MODULE Spec2Model ----
(***************************************************************************)
(* User Access Management API: the entity store (services/database.ts),    *)
(* the permission middleware (middleware/permission.ts) and the user,      *)
(* group, policy and access-request controllers.                           *)
(*                                                                         *)
(* Tables are sequences of records, as the arrays of DatabaseSchema.       *)
(* Identifiers (uuidv4) are fresh naturals drawn from nextId; timestamps   *)
(* (new Date()) are readings of clock, which advances with every write.    *)
(* A call that a handler rejects changes nothing and is no step; its       *)
(* status code is the value of the handler's Status operator.              *)
(*                                                                         *)
(* Spec runs every handler to completion (non-overlapping calls).          *)
(* WorkflowSpec does the same for the handlers that touch memberships and  *)
(* access requests, one write deeper.  ConcSpec runs processAccessRequest  *)
(* and deleteAccessRequest as the JavaScript runtime does: a handler runs  *)
(* without interruption up to its next await, where another call in        *)
(* progress may continue.  DiskSpec lets the file system refuse writes,    *)
(* RestartSpec restarts the process on the file it left, DeleteSpec        *)
(* explores the deleting handlers and GuardSpec runs the permission guard  *)
(* as a call of its own.  ConcCreateSpec, ConcUserSpec, ConcGrantSpec and  *)
(* ConcDeleteSpec run createAccessRequest, createUser and updateUser,      *)
(* approvals beside updateUser, and deleteUser with overlapping calls;     *)
(* CascadeSpec runs the cascades of deleteGroup and deletePolicy await by  *)
(* await in a process that may restart.                                    *)
(***************************************************************************)
EXTENDS Integers, Sequences, FiniteSets, TLC

VARIABLES users, groups, policies, accessRequests, disk, nextId, clock, writesLeft,
          tokens, resp, calls, diskOk

store == <<users, groups, policies, accessRequests>>
vars == <<users, groups, policies, accessRequests, disk, nextId, clock, writesLeft,
          tokens, resp, calls, diskOk>>

\* Number of writing calls explored in a behaviour of Spec (every handler).
MaxWrites == 2

\* Number of writing calls explored in a behaviour of WorkflowSpec (the handlers
\* of the access-request workflow).
MaxWorkflowWrites == 3

\* Number of calls that may be in progress at once under ConcSpec.
MaxCalls == 2

\* An optional field that is not set (processedAt?, processedBy?, findIndex -1).
Undefined == 0

----------------------------------------------------------------------------
(* Sequence helpers: Array.prototype.includes / filter / findIndex.        *)

includes(seq, x) == \E i \in 1..Len(seq) : seq[i] = x

filterOut(seq, x) == SelectSeq(seq, LAMBDA e : e # x)

RECURSIVE findIndexFrom(_, _, _)
findIndexFrom(seq, id, i) ==
  IF i > Len(seq) THEN Undefined
  ELSE IF seq[i].id = id THEN i
  ELSE findIndexFrom(seq, id, i + 1)

findIndex(seq, id) == findIndexFrom(seq, id, 1)

removeAt(seq, i) == SubSeq(seq, 1, i - 1) \o SubSeq(seq, i + 1, Len(seq))

Range(seq) == {seq[i] : i \in 1..Len(seq)}

----------------------------------------------------------------------------
(* String.prototype.toLowerCase over the names the model uses.             *)

toLowerCase(s) ==
  CASE s = "Dev" -> "dev"
    [] s = "Bob" -> "bob"
    [] s = "BOB@example.com" -> "bob@example.com"
    [] s = "Audit" -> "audit"
    [] s = "Admin Policy" -> "admin policy"
    [] s = "User Policy" -> "user policy"
    [] s = "Administrators" -> "administrators"
    [] s = "Users" -> "users"
    [] OTHER -> s

----------------------------------------------------------------------------
(* Permissions.                                                            *)

Perm(r, a) == [resource |-> r, action |-> a]

Resources == <<"users", "groups", "policies", "access-requests">>
Actions == <<"create", "read", "update", "delete">>

\* createDefaultPolicies: the sixteen pairs, resource-major.
AdminPolicyPermissions ==
  [k \in 1..16 |-> Perm(Resources[((k - 1) \div 4) + 1], Actions[((k - 1) % 4) + 1])]

\* Variant of UserPolicyPermissions that also holds policies:delete.
UserPolicyPermissionsWithDelete ==
  << Perm("users", "read"), Perm("groups", "read"),
     Perm("access-requests", "create"), Perm("access-requests", "read"),
     Perm("policies", "delete") >>

UserPolicyPermissions ==
  << Perm("users", "read"), Perm("groups", "read"),
     Perm("access-requests", "create"), Perm("access-requests", "read") >>

\* utils/validation.ts validatePermission: both strings are of the enums.
validatePermission(permission) ==
  /\ permission.resource \in Range(Resources)
  /\ permission.action \in Range(Actions)

----------------------------------------------------------------------------
(* DatabaseService: reads.  A missing record is index Undefined.           *)

getUserById(id) == findIndex(users, id)

getGroupById(id) == findIndex(groups, id)

getPolicyById(id) == findIndex(policies, id)

getAccessRequestById(id) == findIndex(accessRequests, id)

getAccessRequestsByUserId(userId) ==
  SelectSeq(accessRequests, LAMBDA r : r.userId = userId)

\* Array.prototype.find: the first match, or the empty set when none.
getUserByUsername(username) ==
  LET hits == {i \in 1..Len(users) : users[i].username = username}
  IN  IF hits = {} THEN Undefined ELSE CHOOSE i \in hits : \A j \in hits : i <= j

getUserByEmail(email) ==
  LET hits == {i \in 1..Len(users) : toLowerCase(users[i].email) = toLowerCase(email)}
  IN  IF hits = {} THEN Undefined ELSE CHOOSE i \in hits : \A j \in hits : i <= j

isUsernameUnique(username, excludeUserId) ==
  LET i == getUserByUsername(username)
  IN  IF i = Undefined THEN TRUE
      ELSE excludeUserId # Undefined /\ users[i].id = excludeUserId

isEmailUnique(email, excludeUserId) ==
  LET i == getUserByEmail(email)
  IN  IF i = Undefined THEN TRUE
      ELSE excludeUserId # Undefined /\ users[i].id = excludeUserId

\* Variant of isGroupNameUnique that compares names case-sensitively.
isGroupNameUniqueCaseSensitive(name, excludeGroupId) ==
  LET hits == {i \in 1..Len(groups) : groups[i].name = name}
      i == CHOOSE k \in hits : \A j \in hits : k <= j
  IN  IF hits = {} THEN TRUE
      ELSE excludeGroupId # Undefined /\ groups[i].id = excludeGroupId

isGroupNameUnique(name, excludeGroupId) ==
  LET hits == {i \in 1..Len(groups) : toLowerCase(groups[i].name) = toLowerCase(name)}
      i == CHOOSE k \in hits : \A j \in hits : k <= j
  IN  IF hits = {} THEN TRUE
      ELSE excludeGroupId # Undefined /\ groups[i].id = excludeGroupId

\* Variant of isPolicyNameUnique that compares names case-sensitively.
isPolicyNameUniqueCaseSensitive(name, excludePolicyId) ==
  LET hits == {i \in 1..Len(policies) : policies[i].name = name}
      i == CHOOSE k \in hits : \A j \in hits : k <= j
  IN  IF hits = {} THEN TRUE
      ELSE excludePolicyId # Undefined /\ policies[i].id = excludePolicyId

isPolicyNameUnique(name, excludePolicyId) ==
  LET hits == {i \in 1..Len(policies) : toLowerCase(policies[i].name) = toLowerCase(name)}
      i == CHOOSE k \in hits : \A j \in hits : k <= j
  IN  IF hits = {} THEN TRUE
      ELSE excludePolicyId # Undefined /\ policies[i].id = excludePolicyId

\* Variant of validateGroupIds that accepts every id.
validateGroupIdsAcceptAll(groupIds) == [valid |-> TRUE, invalidIds |-> <<>>]

\* Every id the model draws is a well-formed uuid, so validateUUID passes and
\* the invalid ids are those that resolve to no record.
validateGroupIds(groupIds) ==
  LET invalidIds == SelectSeq(groupIds, LAMBDA g : getGroupById(g) = Undefined)
  IN  [valid |-> Len(invalidIds) = 0, invalidIds |-> invalidIds]

\* Variant of validatePolicyIds that accepts every id.
validatePolicyIdsAcceptAll(policyIds) == [valid |-> TRUE, invalidIds |-> <<>>]

validatePolicyIds(policyIds) ==
  LET invalidIds == SelectSeq(policyIds, LAMBDA p : getPolicyById(p) = Undefined)
  IN  [valid |-> Len(invalidIds) = 0, invalidIds |-> invalidIds]

----------------------------------------------------------------------------
(* DatabaseService: writes, as functions from a table to the new table.    *)

\* Object spread {...old, ...data}: the fields of data override those of old.
spread(old, data) ==
  [f \in (DOMAIN old) \cup (DOMAIN data) |-> IF f \in DOMAIN data THEN data[f] ELSE old[f]]

\* Variant of updateUser that clears the groups unless the data carry them.
updateUserResettingGroups(us, id, userData, now) ==
  LET i == findIndex(us, id)
  IN  IF i = Undefined THEN us
      ELSE [us EXCEPT ![i] =
              spread(spread(spread(us[i], [groups |-> <<>>]), userData), [updatedAt |-> now])]

updateUser(us, id, userData, now) ==
  LET i == findIndex(us, id)
  IN  IF i = Undefined THEN us
      ELSE [us EXCEPT ![i] = spread(spread(us[i], userData), [updatedAt |-> now])]

updateGroup(gs, id, groupData, now) ==
  LET i == findIndex(gs, id)
  IN  IF i = Undefined THEN gs
      ELSE [gs EXCEPT ![i] = spread(spread(gs[i], groupData), [updatedAt |-> now])]

updatePolicy(ps, id, policyData, now) ==
  LET i == findIndex(ps, id)
  IN  IF i = Undefined THEN ps
      ELSE [ps EXCEPT ![i] = spread(spread(ps[i], policyData), [updatedAt |-> now])]

\* Variant of updateAccessRequest that does not stamp processedAt.
updateAccessRequestUnstamped(rs, id, requestData, now) ==
  LET i == findIndex(rs, id)
  IN  IF i = Undefined THEN rs
      ELSE [rs EXCEPT ![i] = spread(rs[i], requestData)]

updateAccessRequest(rs, id, requestData, now) ==
  LET i == findIndex(rs, id)
  IN  IF i = Undefined THEN rs
      ELSE [rs EXCEPT ![i] = spread(spread(rs[i], requestData), [processedAt |-> now])]

deleteById(table, id) ==
  LET i == findIndex(table, id)
  IN  IF i = Undefined THEN table ELSE removeAt(table, i)

\* The fields that hold a timestamp.  In memory a timestamp read at time t is
\* the number t while it is a Date object, and the number -t once it is the
\* ISO string of that Date (a record that loadData read from the file).  In
\* the file it is the pair <<"ISO", t>>.
DateFields == {"createdAt", "updatedAt", "requestedAt", "processedAt"}

isString(d) == d < 0

\* JSON.stringify of this.data: a Date becomes its ISO string, a string stays
\* as it is, and a property whose value is undefined is left out.
toJSON(rec) ==
  LET isUndefined(f) ==
        IF f = "reason" THEN rec[f] = {}
        ELSE IF f \in {"processedAt", "processedBy"} THEN rec[f] = Undefined
        ELSE FALSE
      kept == {f \in DOMAIN rec : ~isUndefined(f)}
  IN  [f \in kept |->
         IF f \in DateFields
         THEN <<"ISO", IF isString(rec[f]) THEN 0 - rec[f] ELSE rec[f]>>
         ELSE rec[f]]

\* JSON.parse of a record of the file: no reviver is given, so an ISO string
\* stays a string, and a property the file leaves out is absent.
parse(json) ==
  [f \in DOMAIN json |-> IF f \in DateFields THEN 0 - json[f][2] ELSE json[f]]

stringify(us, gs, ps, rs) ==
  [ users |-> [i \in 1..Len(us) |-> toJSON(us[i])],
    groups |-> [i \in 1..Len(gs) |-> toJSON(gs[i])],
    policies |-> [i \in 1..Len(ps) |-> toJSON(ps[i])],
    accessRequests |-> [i \in 1..Len(rs) |-> toJSON(rs[i])] ]

\* saveData after a write that leaves the tables as (us, gs, ps, rs).  When
\* the file system refuses the write (diskOk is false) writeFileSync throws,
\* the catch block logs the error and saveData returns as usual.
saveData(us, gs, ps, rs) == disk' = IF diskOk THEN stringify(us, gs, ps, rs) ELSE disk

----------------------------------------------------------------------------
(* middleware/permission.ts                                                *)

\* Variant of hasPermission that compares the resource only.
hasPermissionResourceOnly(policy, requiredPermission) ==
  \E j \in 1..Len(policy.permissions) :
    policy.permissions[j].resource = requiredPermission.resource

\* policy.permissions.some(...): strict equality of resource and of action.
hasPermission(policy, requiredPermission) ==
  \E j \in 1..Len(policy.permissions) :
    /\ policy.permissions[j].resource = requiredPermission.resource
    /\ policy.permissions[j].action = requiredPermission.action

\* Variant of checkUserPermission without the admin override.
checkUserPermissionGroupsOnly(userId, requiredPermission) ==
  LET u == getUserById(userId)
  IN  IF u = Undefined THEN FALSE
      ELSE
        LET userGroups == SelectSeq(groups, LAMBDA g : includes(users[u].groups, g.id))
            userPolicies ==
              SelectSeq(policies, LAMBDA p :
                \E i \in 1..Len(userGroups) : includes(userGroups[i].policies, p.id))
        IN  \E i \in 1..Len(userPolicies) : hasPermission(userPolicies[i], requiredPermission)

checkUserPermission(userId, requiredPermission) ==
  LET u == getUserById(userId)
  IN  IF u = Undefined THEN FALSE
      ELSE IF users[u].role = "admin" THEN TRUE
      ELSE
        LET userGroups == SelectSeq(groups, LAMBDA g : includes(users[u].groups, g.id))
            userPolicies ==
              SelectSeq(policies, LAMBDA p :
                \E i \in 1..Len(userGroups) : includes(userGroups[i].policies, p.id))
        IN  \E i \in 1..Len(userPolicies) : hasPermission(userPolicies[i], requiredPermission)

\* Variant of checkPermission that answers 403 for a user it does not find.
checkPermissionForbidden(token, requiredPermission) ==
  LET u == getUserById(token.userId)
  IN  IF u = Undefined THEN 403
      ELSE IF users[u].role = "admin" THEN 200
      ELSE IF ~checkUserPermission(users[u].id, requiredPermission) THEN 403
      ELSE 200

\* Variant of checkPermission that reads the role of the token.
checkPermissionByTokenRole(token, requiredPermission) ==
  LET u == getUserById(token.userId)
  IN  IF u = Undefined THEN 401
      ELSE IF token.role = "admin" THEN 200
      ELSE IF ~checkUserPermission(users[u].id, requiredPermission) THEN 403
      ELSE 200

\* The guard's outcome: 401, 403, or 200 for next().  req.user is the token
\* that authMiddleware decoded.
checkPermission(token, requiredPermission) ==
  LET u == getUserById(token.userId)
  IN  IF u = Undefined THEN 401
      ELSE IF users[u].role = "admin" THEN 200
      ELSE IF ~checkUserPermission(users[u].id, requiredPermission) THEN 403
      ELSE 200

----------------------------------------------------------------------------
(* Construction: loadData finds no file, initializeDatabase seeds the      *)
(* admin user, the two policies and the two groups, and saves.             *)

AdminId == 1
AdminPolicyId == 2
UserPolicyId == 3
AdministratorsId == 4
UsersGroupId == 5
FirstFreeId == 6

\* The records the seeding functions push: ids are drawn from id on, every
\* new Date() reads t.
createDefaultAdmin(id, t) ==
  << [id |-> id, username |-> "admin", email |-> "admin@example.com",
      role |-> "admin", groups |-> <<>>, createdAt |-> t, updatedAt |-> t] >>

createDefaultPolicies(id, t) ==
  << [id |-> id, name |-> "Admin Policy",
      permissions |-> AdminPolicyPermissions, createdAt |-> t, updatedAt |-> t],
     [id |-> id + 1, name |-> "User Policy",
      permissions |-> UserPolicyPermissions, createdAt |-> t, updatedAt |-> t] >>

\* The policies are looked up by name in the table as it stands.
createDefaultGroups(ps, id, t) ==
  LET adminPolicy == {i \in 1..Len(ps) : ps[i].name = "Admin Policy"}
      userPolicy == {i \in 1..Len(ps) : ps[i].name = "User Policy"}
      first(S) == CHOOSE i \in S : \A j \in S : i <= j
  IN  << [id |-> id, name |-> "Administrators",
          policies |-> IF adminPolicy = {} THEN <<>> ELSE <<ps[first(adminPolicy)].id>>,
          createdAt |-> t, updatedAt |-> t],
         [id |-> id + 1, name |-> "Users",
          policies |-> IF userPolicy = {} THEN <<>> ELSE <<ps[first(userPolicy)].id>>,
          createdAt |-> t, updatedAt |-> t] >>

\* adminUser.groups.push(adminGroup.id), adminUser the first user named admin.
assignAdminToGroup(us, gs) ==
  LET admins == {i \in 1..Len(us) : us[i].username = "admin"}
  IN  [i \in 1..Len(us) |->
         IF i \in admins /\ \A j \in admins : i <= j
         THEN [us[i] EXCEPT !.groups = Append(@, gs[1].id)]
         ELSE us[i]]

\* Every user the handlers store has an email, a firstName and a lastName
\* that passed the format validators (none is empty), and so has the seeded
\* admin: migrateUsers finds nothing to fill in.  The model's user records
\* leave firstName and lastName out.
migrateUsers(us) ==
  [i \in 1..Len(us) |->
     IF us[i].email = ""
     THEN [us[i] EXCEPT !.email = us[i].username \o "@example.com"]
     ELSE us[i]]

getDefaultData == [users |-> <<>>, groups |-> <<>>, policies |-> <<>>, accessRequests |-> <<>>]

\* initializeDatabase on the tables that loadData returned: each of the three
\* seedings runs when its own table is empty.  The result carries the next
\* unused id.
initializeDatabase(data, id, t) ==
  LET migrated == migrateUsers(data.users)
      noUsers == Len(migrated) = 0
      noPolicies == Len(data.policies) = 0
      noGroups == Len(data.groups) = 0
      us == IF noUsers THEN migrated \o createDefaultAdmin(id, t) ELSE migrated
      policyId == IF noUsers THEN id + 1 ELSE id
      ps == IF noPolicies THEN createDefaultPolicies(policyId, t) ELSE data.policies
      groupId == IF noPolicies THEN policyId + 2 ELSE policyId
      gs == IF noGroups THEN createDefaultGroups(ps, groupId, t) ELSE data.groups
  IN  [users |-> IF noGroups THEN assignAdminToGroup(us, gs) ELSE us,
       groups |-> gs,
       policies |-> ps,
       accessRequests |-> data.accessRequests,
       nextId |-> IF noGroups THEN groupId + 2 ELSE groupId,
       seeded |-> noUsers \/ noPolicies \/ noGroups]

NoResponse == [op |-> "none", status |-> Undefined]

Idle == [op |-> "idle"]

\* First startup: loadData finds no file and returns getDefaultData.
Constructed ==
  /\ users = initializeDatabase(getDefaultData, AdminId, 1).users
  /\ groups = initializeDatabase(getDefaultData, AdminId, 1).groups
  /\ policies = initializeDatabase(getDefaultData, AdminId, 1).policies
  /\ accessRequests = <<>>
  /\ disk = stringify(users, groups, policies, accessRequests)
  /\ nextId = FirstFreeId
  /\ clock = 1
  /\ tokens = {}
  /\ resp = NoResponse
  /\ calls = [c \in 1..MaxCalls |-> Idle]
  /\ diskOk = TRUE

Init == Constructed /\ writesLeft = MaxWrites

----------------------------------------------------------------------------
(* Request inputs.  Ids are drawn from the records present plus one id     *)
(* that resolves to nothing; names and addresses are well formed, so the   *)
(* format validators and sanitizeInput (trim) leave them as they are.      *)

idsOf(table) == {table[i].id : i \in 1..Len(table)}

UserIdInputs == idsOf(users) \cup {nextId}
GroupIdInputs == idsOf(groups) \cup {nextId}
PolicyIdInputs == idsOf(policies) \cup {nextId}
AccessRequestIdInputs == idsOf(accessRequests) \cup {nextId}

\* Lists of references: none, one id, or every id of the table in its order.
\* and every id of the table followed by an id that resolves to nothing.
GroupListInputs ==
  {<<>>, [i \in 1..Len(groups) |-> groups[i].id],
   Append([i \in 1..Len(groups) |-> groups[i].id], nextId)}
    \cup {<<g>> : g \in GroupIdInputs}

PolicyListInputs ==
  {<<>>, [i \in 1..Len(policies) |-> policies[i].id],
   Append([i \in 1..Len(policies) |-> policies[i].id], nextId)}
    \cup {<<p>> : p \in PolicyIdInputs}

\* POST /users bodies: two people whose addresses differ only in case.
CreateUserInputs ==
  { [username |-> "bob", email |-> "bob@example.com", role |-> "user", groups |-> gl]
      : gl \in GroupListInputs }
    \cup { [username |-> "Bob", email |-> "BOB@example.com", role |-> "maintainer",
            groups |-> <<>>] }

\* PUT /users/:id bodies: any subset of the fields may be supplied.
UserPatchInputs ==
  {[role |-> r] : r \in {"admin", "user"}}
    \cup {[groups |-> gl] : gl \in GroupListInputs}
    \cup {[username |-> "Bob", email |-> "BOB@example.com"]}

CreateGroupInputs ==
  {[name |-> "Dev", policies |-> pl] : pl \in PolicyListInputs}
    \cup {[name |-> "dev", policies |-> <<>>]}

GroupPatchInputs ==
  {[name |-> "dev"]} \cup {[policies |-> pl] : pl \in PolicyListInputs}

\* Permissions are free strings for the policy handlers.
PermissionListInputs ==
  { << Perm("access-requests", "update"), Perm("access-requests", "update") >>,
    << Perm("Users", "delete"), Perm("users", "Delete") >> }

CreatePolicyInputs ==
  {[name |-> "Audit", permissions |-> pm] : pm \in PermissionListInputs}
    \cup {[name |-> "audit", permissions |-> <<>>]}

PolicyPatchInputs ==
  {[name |-> "audit"]} \cup {[permissions |-> pm] : pm \in PermissionListInputs}

\* The permissions the routes hand to the guard, and one that no route uses.
RequiredGuardInputs ==
  {Perm("users", "delete"), Perm("groups", "read"), Perm("access-requests", "update"),
   Perm("Users", "delete")}

\* reason?: string -- the empty set when the body carries none.
ReasonInputs == {{}, {"please"}}

----------------------------------------------------------------------------
(* A handler is its response status, computed from the request and the     *)
(* store by the handler's conditions and early returns, and its effect on  *)
(* the store, which it has only when the status is 200 or 201.  resp keeps *)
(* the last successful call.                                               *)

Response(op, token, id, status) ==
  [op |-> op, caller |-> token.userId, id |-> id, status |-> status]

\* The time a write reads from new Date().
now == clock + 1

\* The handler leaves the tables as (us, gs, ps, rs); every DatabaseService
\* write ends in saveData.
Write(us, gs, ps, rs) ==
  /\ writesLeft > 0
  /\ writesLeft' = writesLeft - 1
  /\ users' = us
  /\ groups' = gs
  /\ policies' = ps
  /\ accessRequests' = rs
  /\ saveData(us, gs, ps, rs)
  /\ clock' = clock + 1
  /\ UNCHANGED <<tokens, diskOk, calls>>

----------------------------------------------------------------------------
(* AuthController.login: a token carries the user's id and current role.   *)

AuthController_login ==
  \E i \in 1..Len(users) :
    /\ [userId |-> users[i].id, role |-> users[i].role] \notin tokens
    /\ tokens' = tokens \cup {[userId |-> users[i].id, role |-> users[i].role]}
    /\ UNCHANGED <<users, groups, policies, accessRequests, disk, nextId, clock, writesLeft,
                   resp, calls, diskOk>>

----------------------------------------------------------------------------
(* UserController                                                          *)

createUserStatus(token, body) ==
  LET guard == checkPermission(token, Perm("users", "create"))
  IN  IF guard # 200 THEN guard
      ELSE IF ~isUsernameUnique(body.username, Undefined) THEN 409
      ELSE IF ~isEmailUnique(body.email, Undefined) THEN 409
      ELSE IF Len(body.groups) > 0 /\ ~validateGroupIds(body.groups).valid THEN 400
      ELSE 201

UserController_createUser ==
  \E token \in tokens, body \in CreateUserInputs :
    LET newUser == [id |-> nextId, username |-> body.username, email |-> body.email,
                    role |-> body.role, groups |-> body.groups,
                    createdAt |-> now, updatedAt |-> now]
    IN  /\ createUserStatus(token, body) = 201
        /\ Write(Append(users, newUser), groups, policies, accessRequests)
        /\ nextId' = nextId + 1
        /\ resp' = Response("createUser", token, nextId, 201)

\* Variant of updateUserStatus for a route without the guard.
updateUserStatusUnguarded(token, id, patch) ==
  LET existingUser == getUserById(id)
      has(f) == f \in DOMAIN patch
  IN  IF existingUser = Undefined THEN 404
      ELSE IF /\ has("username")
              /\ patch.username # users[existingUser].username
              /\ getUserByUsername(patch.username) # Undefined
        THEN 409
      ELSE IF /\ has("email")
              /\ patch.email # users[existingUser].email
              /\ getUserByEmail(patch.email) # Undefined
        THEN 409
      ELSE IF has("groups") /\ Len(patch.groups) > 0 /\ ~validateGroupIds(patch.groups).valid
        THEN 400
      ELSE 200

updateUserStatus(token, id, patch) ==
  LET guard == checkPermission(token, Perm("users", "update"))
      existingUser == getUserById(id)
      has(f) == f \in DOMAIN patch
  IN  IF guard # 200 THEN guard
      ELSE IF existingUser = Undefined THEN 404
      ELSE IF /\ has("username")
              /\ patch.username # users[existingUser].username
              /\ getUserByUsername(patch.username) # Undefined
        THEN 409
      ELSE IF /\ has("email")
              /\ patch.email # users[existingUser].email
              /\ getUserByEmail(patch.email) # Undefined
        THEN 409
      ELSE IF has("groups") /\ Len(patch.groups) > 0 /\ ~validateGroupIds(patch.groups).valid
        THEN 400
      ELSE 200

UserController_updateUser ==
  \E token \in tokens, id \in UserIdInputs, patch \in UserPatchInputs :
    /\ updateUserStatus(token, id, patch) = 200
    /\ Write(updateUser(users, id, patch, now), groups, policies, accessRequests)
    /\ resp' = Response("updateUser", token, id, 200)
    /\ UNCHANGED nextId

\* Variant of deleteUserStatus without the check of the caller's own id.
deleteUserStatusNoSelfCheck(token, id) ==
  LET guard == checkPermission(token, Perm("users", "delete"))
  IN  IF guard # 200 THEN guard
      ELSE IF getUserById(id) = Undefined THEN 404
      ELSE 200

deleteUserStatus(token, id) ==
  LET guard == checkPermission(token, Perm("users", "delete"))
  IN  IF guard # 200 THEN guard
      ELSE IF token.userId = id THEN 400
      ELSE IF getUserById(id) = Undefined THEN 404
      ELSE 200

\* Variant of deleteUser that also removes the access requests of the user.
UserController_deleteUserCascading ==
  \E token \in tokens, id \in UserIdInputs :
    /\ deleteUserStatus(token, id) = 200
    /\ Write(deleteById(users, id), groups, policies,
             SelectSeq(accessRequests, LAMBDA r : r.userId # id))
    /\ resp' = Response("deleteUser", token, id, 200)
    /\ UNCHANGED nextId

UserController_deleteUser ==
  \E token \in tokens, id \in UserIdInputs :
    /\ deleteUserStatus(token, id) = 200
    /\ Write(deleteById(users, id), groups, policies, accessRequests)
    /\ resp' = Response("deleteUser", token, id, 200)
    /\ UNCHANGED nextId

----------------------------------------------------------------------------
(* GroupController                                                         *)

createGroupStatus(token, body) ==
  LET guard == checkPermission(token, Perm("groups", "create"))
  IN  IF guard # 200 THEN guard
      ELSE IF ~isGroupNameUnique(body.name, Undefined) THEN 409
      ELSE IF Len(body.policies) > 0 /\ ~validatePolicyIds(body.policies).valid THEN 400
      ELSE 201

GroupController_createGroup ==
  \E token \in tokens, body \in CreateGroupInputs :
    LET newGroup == [id |-> nextId, name |-> body.name, policies |-> body.policies,
                     createdAt |-> now, updatedAt |-> now]
    IN  /\ createGroupStatus(token, body) = 201
        /\ Write(users, Append(groups, newGroup), policies, accessRequests)
        /\ nextId' = nextId + 1
        /\ resp' = Response("createGroup", token, nextId, 201)

updateGroupStatus(token, id, patch) ==
  LET guard == checkPermission(token, Perm("groups", "update"))
      existingGroup == getGroupById(id)
      has(f) == f \in DOMAIN patch
  IN  IF guard # 200 THEN guard
      ELSE IF existingGroup = Undefined THEN 404
      ELSE IF /\ has("name")
              /\ patch.name # groups[existingGroup].name
              /\ ~isGroupNameUnique(patch.name, Undefined)
        THEN 409
      ELSE IF /\ has("policies")
              /\ Len(patch.policies) > 0
              /\ ~validatePolicyIds(patch.policies).valid
        THEN 400
      ELSE 200

GroupController_updateGroup ==
  \E token \in tokens, id \in GroupIdInputs, patch \in GroupPatchInputs :
    /\ updateGroupStatus(token, id, patch) = 200
    /\ Write(users, updateGroup(groups, id, patch, now), policies, accessRequests)
    /\ resp' = Response("updateGroup", token, id, 200)
    /\ UNCHANGED nextId

\* "Remove group from all users": updateUser on each user that lists id.
\* Variant of removeGroupFromAllUsers that empties the groups of a member.
removeGroupFromAllUsersClearing(us, id, t) ==
  [i \in 1..Len(us) |->
     IF includes(us[i].groups, id)
     THEN spread(us[i], [groups |-> <<>>, updatedAt |-> t])
     ELSE us[i]]

removeGroupFromAllUsers(us, id, t) ==
  [i \in 1..Len(us) |->
     IF includes(us[i].groups, id)
     THEN spread(us[i], [groups |-> filterOut(us[i].groups, id), updatedAt |-> t])
     ELSE us[i]]

\* Variant of deleteGroupStatus for a route without the guard.
deleteGroupStatusUnguarded(token, id) ==
  IF getGroupById(id) = Undefined THEN 404 ELSE 200

deleteGroupStatus(token, id) ==
  LET guard == checkPermission(token, Perm("groups", "delete"))
  IN  IF guard # 200 THEN guard
      ELSE IF getGroupById(id) = Undefined THEN 404
      ELSE 200

GroupController_deleteGroup ==
  \E token \in tokens, id \in GroupIdInputs :
    /\ deleteGroupStatus(token, id) = 200
    /\ Write(removeGroupFromAllUsers(users, id, now), deleteById(groups, id),
             policies, accessRequests)
    /\ resp' = Response("deleteGroup", token, id, 200)
    /\ UNCHANGED nextId

----------------------------------------------------------------------------
(* PolicyController                                                        *)

createPolicyStatus(token, body) ==
  LET guard == checkPermission(token, Perm("policies", "create"))
  IN  IF guard # 200 THEN guard
      ELSE IF ~isPolicyNameUnique(body.name, Undefined) THEN 409
      ELSE 201

PolicyController_createPolicy ==
  \E token \in tokens, body \in CreatePolicyInputs :
    LET newPolicy == [id |-> nextId, name |-> body.name, permissions |-> body.permissions,
                      createdAt |-> now, updatedAt |-> now]
    IN  /\ createPolicyStatus(token, body) = 201
        /\ Write(users, groups, Append(policies, newPolicy), accessRequests)
        /\ nextId' = nextId + 1
        /\ resp' = Response("createPolicy", token, nextId, 201)

updatePolicyStatus(token, id, patch) ==
  LET guard == checkPermission(token, Perm("policies", "update"))
      existingPolicy == getPolicyById(id)
      has(f) == f \in DOMAIN patch
  IN  IF guard # 200 THEN guard
      ELSE IF existingPolicy = Undefined THEN 404
      ELSE IF /\ has("name")
              /\ patch.name # policies[existingPolicy].name
              /\ ~isPolicyNameUnique(patch.name, Undefined)
        THEN 409
      ELSE 200

PolicyController_updatePolicy ==
  \E token \in tokens, id \in PolicyIdInputs, patch \in PolicyPatchInputs :
    /\ updatePolicyStatus(token, id, patch) = 200
    /\ Write(users, groups, updatePolicy(policies, id, patch, now), accessRequests)
    /\ resp' = Response("updatePolicy", token, id, 200)
    /\ UNCHANGED nextId

\* "Remove policy from all groups": updateGroup on each group that lists id.
\* Variant of removePolicyFromAllGroups that empties the policies of a group
\* that references the policy.
removePolicyFromAllGroupsClearing(gs, id, t) ==
  [i \in 1..Len(gs) |->
     IF includes(gs[i].policies, id)
     THEN spread(gs[i], [policies |-> <<>>, updatedAt |-> t])
     ELSE gs[i]]

removePolicyFromAllGroups(gs, id, t) ==
  [i \in 1..Len(gs) |->
     IF includes(gs[i].policies, id)
     THEN spread(gs[i], [policies |-> filterOut(gs[i].policies, id), updatedAt |-> t])
     ELSE gs[i]]

deletePolicyStatus(token, id) ==
  LET guard == checkPermission(token, Perm("policies", "delete"))
  IN  IF guard # 200 THEN guard
      ELSE IF getPolicyById(id) = Undefined THEN 404
      ELSE 200

PolicyController_deletePolicy ==
  \E token \in tokens, id \in PolicyIdInputs :
    /\ deletePolicyStatus(token, id) = 200
    /\ Write(users, removePolicyFromAllGroups(groups, id, now),
             deleteById(policies, id), accessRequests)
    /\ resp' = Response("deletePolicy", token, id, 200)
    /\ UNCHANGED nextId

----------------------------------------------------------------------------
(* AccessRequestController                                                 *)

StatusInputs == {"approved", "denied", "pending"}

\* Variant of hasPendingRequest that counts a request of any status.
hasPendingRequestAnyStatus(userId, groupId) ==
  LET existingRequests == getAccessRequestsByUserId(userId)
  IN  \E i \in 1..Len(existingRequests) : existingRequests[i].groupId = groupId

hasPendingRequest(userId, groupId) ==
  LET existingRequests == getAccessRequestsByUserId(userId)
  IN  \E i \in 1..Len(existingRequests) :
        existingRequests[i].groupId = groupId /\ existingRequests[i].status = "pending"

\* Variant of createAccessRequestStatus without the membership check.
createAccessRequestStatusNoMemberCheck(token, groupId) ==
  LET guard == checkPermission(token, Perm("access-requests", "create"))
  IN  IF guard # 200 THEN guard
      ELSE IF getGroupById(groupId) = Undefined THEN 404
      ELSE IF hasPendingRequest(token.userId, groupId) THEN 400
      ELSE 201

createAccessRequestStatus(token, groupId) ==
  LET guard == checkPermission(token, Perm("access-requests", "create"))
      currentUser == getUserById(token.userId)
  IN  IF guard # 200 THEN guard
      ELSE IF getGroupById(groupId) = Undefined THEN 404
      ELSE IF currentUser # Undefined /\ includes(users[currentUser].groups, groupId) THEN 400
      ELSE IF hasPendingRequest(token.userId, groupId) THEN 400
      ELSE 201

AccessRequestController_createAccessRequest ==
  \E token \in tokens, groupId \in GroupIdInputs, reason \in ReasonInputs :
    LET newRequest == [id |-> nextId, userId |-> token.userId, groupId |-> groupId,
                       status |-> "pending", reason |-> reason, requestedAt |-> now,
                       processedAt |-> Undefined, processedBy |-> Undefined]
    IN  /\ createAccessRequestStatus(token, groupId) = 201
        /\ Write(users, groups, policies, Append(accessRequests, newRequest))
        /\ nextId' = nextId + 1
        /\ resp' = Response("createAccessRequest", token, nextId, 201)

\* "If approved, add user to group": the request's groupId is appended to the
\* requesting user's groups when that user still exists.
addUserToGroup(us, userId, groupId, t) ==
  LET requestUser == findIndex(us, userId)
  IN  IF requestUser = Undefined THEN us
      ELSE updateUser(us, userId, [groups |-> Append(us[requestUser].groups, groupId)], t)

\* Variant of processAccessRequestStatus without the check of the current status.
processAccessRequestStatusAnyStatus(token, id, status) ==
  LET guard == checkPermission(token, Perm("access-requests", "update"))
      accessRequest == getAccessRequestById(id)
  IN  IF guard # 200 THEN guard
      ELSE IF status \notin {"approved", "denied"} THEN 400
      ELSE IF accessRequest = Undefined THEN 404
      ELSE 200

processAccessRequestStatus(token, id, status) ==
  LET guard == checkPermission(token, Perm("access-requests", "update"))
      accessRequest == getAccessRequestById(id)
  IN  IF guard # 200 THEN guard
      ELSE IF status \notin {"approved", "denied"} THEN 400
      ELSE IF accessRequest = Undefined THEN 404
      ELSE IF accessRequests[accessRequest].status # "pending" THEN 400
      ELSE 200

\* Variant of processAccessRequest that adds the membership whatever the status.
AccessRequestController_processAccessRequestAlwaysGranting ==
  \E token \in tokens, id \in AccessRequestIdInputs, status \in StatusInputs,
     reason \in ReasonInputs :
    LET accessRequest == accessRequests[getAccessRequestById(id)]
        requestData == [status |-> status, reason |-> reason, processedBy |-> token.userId]
    IN  /\ processAccessRequestStatus(token, id, status) = 200
        /\ Write(addUserToGroup(users, accessRequest.userId, accessRequest.groupId, now),
                 groups, policies,
                 updateAccessRequest(accessRequests, id, requestData, now))
        /\ resp' = Response("processAccessRequest", token, id, 200)
        /\ UNCHANGED nextId

AccessRequestController_processAccessRequest ==
  \E token \in tokens, id \in AccessRequestIdInputs, status \in StatusInputs,
     reason \in ReasonInputs :
    LET accessRequest == accessRequests[getAccessRequestById(id)]
        requestData == [status |-> status, reason |-> reason, processedBy |-> token.userId]
    IN  /\ processAccessRequestStatus(token, id, status) = 200
        /\ Write(IF status = "approved"
                 THEN addUserToGroup(users, accessRequest.userId, accessRequest.groupId, now)
                 ELSE users,
                 groups, policies,
                 updateAccessRequest(accessRequests, id, requestData, now))
        /\ resp' = Response("processAccessRequest", token, id, 200)
        /\ UNCHANGED nextId

\* GET /access-requests: the data of the response; the role read is the one
\* the token carries.
getAllAccessRequestsData(token) ==
  IF token.role = "admin" THEN accessRequests
  ELSE getAccessRequestsByUserId(token.userId)

\* GET /access-requests/:id
getAccessRequestByIdStatus(token, id) ==
  LET guard == checkPermission(token, Perm("access-requests", "read"))
      accessRequest == getAccessRequestById(id)
  IN  IF guard # 200 THEN guard
      ELSE IF accessRequest = Undefined THEN 404
      ELSE IF token.role # "admin" /\ accessRequests[accessRequest].userId # token.userId
        THEN 403
      ELSE 200

deleteAccessRequestStatus(token, id) ==
  LET guard == checkPermission(token, Perm("access-requests", "delete"))
      accessRequest == getAccessRequestById(id)
  IN  IF guard # 200 THEN guard
      ELSE IF accessRequest = Undefined THEN 404
      ELSE IF token.role # "admin" /\ accessRequests[accessRequest].userId # token.userId
        THEN 403
      ELSE 200

AccessRequestController_deleteAccessRequest ==
  \E token \in tokens, id \in AccessRequestIdInputs :
    /\ deleteAccessRequestStatus(token, id) = 200
    /\ Write(users, groups, policies, deleteById(accessRequests, id))
    /\ resp' = Response("deleteAccessRequest", token, id, 200)
    /\ UNCHANGED nextId

----------------------------------------------------------------------------
(* Non-overlapping calls: every handler runs to completion.                *)

Next ==
  \/ AuthController_login
  \/ UserController_createUser
  \/ UserController_updateUser
  \/ UserController_deleteUser
  \/ GroupController_createGroup
  \/ GroupController_updateGroup
  \/ GroupController_deleteGroup
  \/ PolicyController_createPolicy
  \/ PolicyController_updatePolicy
  \/ PolicyController_deletePolicy
  \/ AccessRequestController_createAccessRequest
  \/ AccessRequestController_processAccessRequest
  \/ AccessRequestController_deleteAccessRequest

Spec == Init /\ [][Next]_vars

----------------------------------------------------------------------------
(* The handlers of the access-request workflow, with the user and group    *)
(* handlers that change memberships, explored one write deeper.            *)

WorkflowInit == Constructed /\ writesLeft = MaxWorkflowWrites

WorkflowNext ==
  \/ AuthController_login
  \/ UserController_createUser
  \/ UserController_updateUser
  \/ GroupController_deleteGroup
  \/ AccessRequestController_createAccessRequest
  \/ AccessRequestController_processAccessRequest
  \/ AccessRequestController_deleteAccessRequest

WorkflowSpec == WorkflowInit /\ [][WorkflowNext]_vars

----------------------------------------------------------------------------
(* The handlers of WorkflowSpec on a file system that may refuse writes.   *)

\* The file system starts to refuse writes (disk full, file not writable).
DiskFault ==
  /\ diskOk
  /\ diskOk' = FALSE
  /\ UNCHANGED <<users, groups, policies, accessRequests, disk, nextId, clock, writesLeft,
                 tokens, resp, calls>>

\* The file system accepts writes again.
DiskRepair ==
  /\ ~diskOk
  /\ diskOk' = TRUE
  /\ UNCHANGED <<users, groups, policies, accessRequests, disk, nextId, clock, writesLeft,
                 tokens, resp, calls>>

DiskInit == Constructed /\ writesLeft = MaxWrites

DiskNext ==
  \/ DiskFault
  \/ DiskRepair
  \/ AuthController_login
  \/ UserController_createUser
  \/ UserController_updateUser
  \/ GroupController_deleteGroup
  \/ AccessRequestController_createAccessRequest
  \/ AccessRequestController_processAccessRequest
  \/ AccessRequestController_deleteAccessRequest

DiskSpec == DiskInit /\ [][DiskNext]_vars

----------------------------------------------------------------------------
(* Restart of the process: the constructor of DatabaseService runs again,  *)
(* on the file the previous run left.  Tokens are self-contained and stay  *)
(* valid; calls in progress and their responses are gone.                  *)

loadData ==
  [ users |-> [i \in 1..Len(disk.users) |-> parse(disk.users[i])],
    groups |-> [i \in 1..Len(disk.groups) |-> parse(disk.groups[i])],
    policies |-> [i \in 1..Len(disk.policies) |-> parse(disk.policies[i])],
    accessRequests |->
      [i \in 1..Len(disk.accessRequests) |-> parse(disk.accessRequests[i])] ]

Restart ==
  LET data == initializeDatabase(loadData, nextId, now)
  IN  /\ users' = data.users
      /\ groups' = data.groups
      /\ policies' = data.policies
      /\ accessRequests' = data.accessRequests
      /\ saveData(data.users, data.groups, data.policies, data.accessRequests)
      /\ nextId' = data.nextId
      /\ clock' = IF data.seeded THEN clock + 1 ELSE clock
      /\ resp' = NoResponse
      /\ calls' = [c \in 1..MaxCalls |-> Idle]
      /\ UNCHANGED <<writesLeft, tokens, diskOk>>

RestartInit == Constructed /\ writesLeft = MaxWrites

RestartNext ==
  \/ Restart
  \/ AuthController_login
  \/ UserController_createUser
  \/ UserController_deleteUser
  \/ GroupController_deleteGroup
  \/ PolicyController_deletePolicy
  \/ AccessRequestController_createAccessRequest
  \/ AccessRequestController_processAccessRequest

RestartSpec == RestartInit /\ [][RestartNext]_vars

----------------------------------------------------------------------------
(* The handlers that delete users and access requests, with those that     *)
(* create the records they delete.                                         *)

\* Number of writing calls explored in a behaviour of DeleteSpec.
MaxDeleteWrites == 6

DeleteInit == Constructed /\ writesLeft = MaxDeleteWrites

DeleteNext ==
  \/ AuthController_login
  \/ UserController_createUser
  \/ UserController_deleteUser
  \/ AccessRequestController_createAccessRequest
  \/ AccessRequestController_processAccessRequest
  \/ AccessRequestController_deleteAccessRequest

DeleteSpec == DeleteInit /\ [][DeleteNext]_vars

----------------------------------------------------------------------------
(* The guard as a call of its own: checkPermission decides for the token   *)
(* and the required permission of a route, from getUserById, getAllGroups  *)
(* and getAllPolicies, which return the tables and write nothing.  resp    *)
(* keeps the decision: the status (200 for next()) and the value of        *)
(* checkUserPermission for the token's user.  The file system may refuse   *)
(* writes, so that the file can lag behind the tables.                     *)

\* Variant of the guard call that stamps the user it looked up and saves.
PermissionMiddleware_checkPermissionTouching ==
  \E token \in tokens, requiredPermission \in RequiredGuardInputs :
    /\ users' = updateUser(users, token.userId, [role |-> token.role], now)
    /\ saveData(users', groups, policies, accessRequests)
    /\ resp' = [op |-> "checkPermission", caller |-> token.userId,
                id |-> requiredPermission,
                status |-> checkPermission(token, requiredPermission),
                allowed |-> checkUserPermission(token.userId, requiredPermission)]
    /\ UNCHANGED <<groups, policies, accessRequests, nextId, clock, writesLeft,
                   tokens, calls, diskOk>>

PermissionMiddleware_checkPermission ==
  \E token \in tokens, requiredPermission \in RequiredGuardInputs :
    /\ resp' = [op |-> "checkPermission", caller |-> token.userId,
                id |-> requiredPermission,
                status |-> checkPermission(token, requiredPermission),
                allowed |-> checkUserPermission(token.userId, requiredPermission)]
    /\ UNCHANGED <<users, groups, policies, accessRequests, disk, nextId, clock, writesLeft,
                   tokens, calls, diskOk>>

GuardInit == Constructed /\ writesLeft = MaxWrites

GuardNext ==
  \/ DiskFault
  \/ DiskRepair
  \/ AuthController_login
  \/ PermissionMiddleware_checkPermission
  \/ UserController_createUser
  \/ UserController_deleteUser
  \/ GroupController_deleteGroup

GuardSpec == GuardInit /\ [][GuardNext]_vars

----------------------------------------------------------------------------
(* Overlapping calls.  processAccessRequest and deleteAccessRequest run as *)
(* the runtime runs an async function: without interruption up to an       *)
(* await, where another call in progress may continue.  A DatabaseService  *)
(* method runs when it is called, so a step is the code from the           *)
(* continuation of one await to the call whose result the next await       *)
(* waits for.  The objects a handler holds (accessRequest, requestUser)    *)
(* are those it read: a store update replaces the array slot with a new    *)
(* object and leaves the object read earlier as it was.  null and          *)
(* undefined are the empty sequence.  writesLeft counts the writing calls  *)
(* still to be started.                                                    *)

Call(op, pc, token, id, status, reason, accessRequest, updatedRequest, requestUser) ==
  [op |-> op, pc |-> pc, token |-> token, id |-> id, status |-> status,
   reason |-> reason, accessRequest |-> accessRequest,
   updatedRequest |-> updatedRequest, requestUser |-> requestUser]

\* The slot a new call takes: the first that is idle.
FreeSlot(c) == calls[c] = Idle /\ \A d \in 1..(c - 1) : calls[d] # Idle

\* A DatabaseService write that found its record: the table changes and
\* saveData runs.
Saved(us, rs) ==
  /\ users' = us
  /\ accessRequests' = rs
  /\ saveData(us, groups, policies, rs)
  /\ clock' = clock + 1
  /\ UNCHANGED <<groups, policies>>

\* A DatabaseService write that found no record returns before saveData.
NotFound == UNCHANGED <<users, groups, policies, accessRequests, disk, clock>>

\* Guard, validation of status, and the call of getAccessRequestById; the
\* checks after the await read the object this call returned.
processAccessRequest_begin ==
  \E c \in 1..MaxCalls, token \in tokens, id \in AccessRequestIdInputs,
     status \in StatusInputs, reason \in ReasonInputs :
    /\ FreeSlot(c)
    /\ writesLeft > 0
    /\ processAccessRequestStatus(token, id, status) = 200
    /\ calls' = [calls EXCEPT ![c] =
                   Call("processAccessRequest", "updateAccessRequest", token, id, status,
                        reason, <<accessRequests[getAccessRequestById(id)]>>, <<>>, <<>>)]
    /\ writesLeft' = writesLeft - 1
    /\ UNCHANGED <<users, groups, policies, accessRequests, disk, nextId, clock, tokens,
                   diskOk, resp>>

\* The call of updateAccessRequest; the response goes out from here when the
\* status is denied.
processAccessRequest_updateAccessRequest ==
  \E c \in 1..MaxCalls :
    LET call == calls[c]
        found == getAccessRequestById(call.id) # Undefined
        requestData == [status |-> call.status, reason |-> call.reason,
                        processedBy |-> call.token.userId]
        rs == updateAccessRequest(accessRequests, call.id, requestData, now)
        updatedRequest == IF found THEN <<rs[getAccessRequestById(call.id)]>> ELSE <<>>
    IN  /\ call.op = "processAccessRequest"
        /\ call.pc = "updateAccessRequest"
        /\ IF found THEN Saved(users, rs) ELSE NotFound
        /\ IF call.status = "approved"
           THEN /\ calls' = [calls EXCEPT ![c] =
                              [call EXCEPT !.pc = "getUserById",
                                           !.updatedRequest = updatedRequest]]
                /\ UNCHANGED resp
           ELSE /\ calls' = [calls EXCEPT ![c] = Idle]
                /\ resp' = Response("processAccessRequest", call.token, call.id, 200)
        /\ UNCHANGED <<nextId, writesLeft, tokens, diskOk>>

\* The call of getUserById(accessRequest.userId); without that user the
\* response goes out.
processAccessRequest_getUserById ==
  \E c \in 1..MaxCalls :
    LET call == calls[c]
        requestUser == getUserById(call.accessRequest[1].userId)
    IN  /\ call.op = "processAccessRequest"
        /\ call.pc = "getUserById"
        /\ IF requestUser # Undefined
           THEN /\ calls' = [calls EXCEPT ![c] =
                              [call EXCEPT !.pc = "updateUser",
                                           !.requestUser = <<users[requestUser]>>]]
                /\ UNCHANGED resp
           ELSE /\ calls' = [calls EXCEPT ![c] = Idle]
                /\ resp' = Response("processAccessRequest", call.token, call.id, 200)
        /\ UNCHANGED <<users, groups, policies, accessRequests, disk, nextId, clock,
                       writesLeft, tokens, diskOk>>

\* The call of updateUser with [...requestUser.groups, accessRequest.groupId],
\* then the response.
processAccessRequest_updateUser ==
  \E c \in 1..MaxCalls :
    LET call == calls[c]
        requestUser == call.requestUser[1]
        updatedGroups == Append(requestUser.groups, call.accessRequest[1].groupId)
    IN  /\ call.op = "processAccessRequest"
        /\ call.pc = "updateUser"
        /\ IF getUserById(requestUser.id) # Undefined
           THEN Saved(updateUser(users, requestUser.id, [groups |-> updatedGroups], now),
                      accessRequests)
           ELSE NotFound
        /\ calls' = [calls EXCEPT ![c] = Idle]
        /\ resp' = Response("processAccessRequest", call.token, call.id, 200)
        /\ UNCHANGED <<nextId, writesLeft, tokens, diskOk>>

\* Guard and the call of getAccessRequestById; the checks after the await read
\* the object this call returned.
deleteAccessRequest_begin ==
  \E c \in 1..MaxCalls, token \in tokens, id \in AccessRequestIdInputs :
    /\ FreeSlot(c)
    /\ writesLeft > 0
    /\ deleteAccessRequestStatus(token, id) = 200
    /\ calls' = [calls EXCEPT ![c] =
                   Call("deleteAccessRequest", "deleteAccessRequest", token, id, "", {},
                        <<accessRequests[getAccessRequestById(id)]>>, <<>>, <<>>)]
    /\ writesLeft' = writesLeft - 1
    /\ UNCHANGED <<users, groups, policies, accessRequests, disk, nextId, clock, tokens,
                   diskOk, resp>>

\* The call of DatabaseService.deleteAccessRequest, then the response, which
\* does not read the result.
deleteAccessRequest_deleteAccessRequest ==
  \E c \in 1..MaxCalls :
    LET call == calls[c]
    IN  /\ call.op = "deleteAccessRequest"
        /\ IF getAccessRequestById(call.id) # Undefined
           THEN Saved(users, deleteById(accessRequests, call.id))
           ELSE NotFound
        /\ calls' = [calls EXCEPT ![c] = Idle]
        /\ resp' = Response("deleteAccessRequest", call.token, call.id, 200)
        /\ UNCHANGED <<nextId, writesLeft, tokens, diskOk>>

ConcInit == Constructed /\ writesLeft = MaxWorkflowWrites

ConcNext ==
  \/ AuthController_login
  \/ AccessRequestController_createAccessRequest
  \/ processAccessRequest_begin
  \/ processAccessRequest_updateAccessRequest
  \/ processAccessRequest_getUserById
  \/ processAccessRequest_updateUser
  \/ deleteAccessRequest_begin
  \/ deleteAccessRequest_deleteAccessRequest

ConcSpec == ConcInit /\ [][ConcNext]_vars

----------------------------------------------------------------------------
(* Overlapping calls of createAccessRequest, await by await.               *)

CreateCall(pc, token, groupId, reason, currentUser, existingRequests) ==
  [op |-> "createAccessRequest", pc |-> pc, token |-> token, groupId |-> groupId,
   reason |-> reason, currentUser |-> currentUser, existingRequests |-> existingRequests]

\* Guard and the call of getGroupById; without the group the answer is 404.
createAccessRequest_begin ==
  \E c \in 1..MaxCalls, token \in tokens, groupId \in GroupIdInputs, reason \in ReasonInputs :
    /\ FreeSlot(c)
    /\ writesLeft > 0
    /\ checkPermission(token, Perm("access-requests", "create")) = 200
    /\ getGroupById(groupId) # Undefined
    /\ calls' = [calls EXCEPT ![c] = CreateCall("getUserById", token, groupId, reason, <<>>, <<>>)]
    /\ writesLeft' = writesLeft - 1
    /\ UNCHANGED <<users, groups, policies, accessRequests, disk, nextId, clock, tokens,
                   diskOk, resp>>

\* The call of getUserById(user.userId).
createAccessRequest_getUserById ==
  \E c \in 1..MaxCalls :
    LET call == calls[c]
        currentUser == getUserById(call.token.userId)
    IN  /\ call.op = "createAccessRequest"
        /\ call.pc = "getUserById"
        /\ calls' = [calls EXCEPT ![c] =
                       [call EXCEPT !.pc = "getAccessRequestsByUserId",
                                    !.currentUser = IF currentUser = Undefined THEN <<>>
                                                    ELSE <<users[currentUser]>>]]
        /\ UNCHANGED <<users, groups, policies, accessRequests, disk, nextId, clock,
                       writesLeft, tokens, diskOk, resp>>

\* The membership check on the user read, answered with 400, or the call of
\* getAccessRequestsByUserId.
createAccessRequest_getAccessRequestsByUserId ==
  \E c \in 1..MaxCalls :
    LET call == calls[c]
        member == call.currentUser # <<>> /\ includes(call.currentUser[1].groups, call.groupId)
    IN  /\ call.op = "createAccessRequest"
        /\ call.pc = "getAccessRequestsByUserId"
        /\ calls' = [calls EXCEPT ![c] =
                       IF member THEN Idle
                       ELSE [call EXCEPT !.pc = "createAccessRequest",
                                         !.existingRequests =
                                           getAccessRequestsByUserId(call.token.userId)]]
        /\ UNCHANGED <<users, groups, policies, accessRequests, disk, nextId, clock,
                       writesLeft, tokens, diskOk, resp>>

\* The search for a pending request among the requests read, answered with
\* 400, or the call of DatabaseService.createAccessRequest and the response.
createAccessRequest_createAccessRequest ==
  \E c \in 1..MaxCalls :
    LET call == calls[c]
        pendingRequest ==
          \E i \in 1..Len(call.existingRequests) :
            /\ call.existingRequests[i].groupId = call.groupId
            /\ call.existingRequests[i].status = "pending"
        newRequest == [id |-> nextId, userId |-> call.token.userId, groupId |-> call.groupId,
                       status |-> "pending", reason |-> call.reason, requestedAt |-> now,
                       processedAt |-> Undefined, processedBy |-> Undefined]
    IN  /\ call.op = "createAccessRequest"
        /\ call.pc = "createAccessRequest"
        /\ calls' = [calls EXCEPT ![c] = Idle]
        /\ IF pendingRequest
           THEN NotFound /\ UNCHANGED <<nextId, resp>>
           ELSE /\ Saved(users, Append(accessRequests, newRequest))
                /\ nextId' = nextId + 1
                /\ resp' = Response("createAccessRequest", call.token, nextId, 201)
        /\ UNCHANGED <<writesLeft, tokens, diskOk>>

ConcCreateInit == Constructed /\ writesLeft = MaxWorkflowWrites

ConcCreateNext ==
  \/ AuthController_login
  \/ createAccessRequest_begin
  \/ createAccessRequest_getUserById
  \/ createAccessRequest_getAccessRequestsByUserId
  \/ createAccessRequest_createAccessRequest

ConcCreateSpec == ConcCreateInit /\ [][ConcCreateNext]_vars

----------------------------------------------------------------------------
(* Overlapping createUser and updateUser.  Both handlers run their checks, *)
(* then wait for bcrypt.hash(password, 10), which completes in a later     *)
(* turn of the event loop, and then call the store.  Any other call can    *)
(* run while a handler waits for the hash.  An update body carries a       *)
(* password besides the fields of the patch.                               *)

UserCall(op, token, id, body) ==
  [op |-> op, pc |-> "hash", token |-> token, id |-> id, body |-> body]

\* Guard, validators, uniqueness checks and validateGroupIds, up to the call
\* of bcrypt.hash.
createUser_begin ==
  \E c \in 1..MaxCalls, token \in tokens, body \in CreateUserInputs :
    /\ FreeSlot(c)
    /\ writesLeft > 0
    /\ createUserStatus(token, body) = 201
    /\ calls' = [calls EXCEPT ![c] = UserCall("createUser", token, Undefined, body)]
    /\ writesLeft' = writesLeft - 1
    /\ UNCHANGED <<users, groups, policies, accessRequests, disk, nextId, clock, tokens,
                   diskOk, resp>>

\* The hash is there: DatabaseService.createUser and the response.
createUser_createUser ==
  \E c \in 1..MaxCalls :
    LET call == calls[c]
        newUser == [id |-> nextId, username |-> call.body.username,
                    email |-> call.body.email, role |-> call.body.role,
                    groups |-> call.body.groups, createdAt |-> now, updatedAt |-> now]
    IN  /\ call.op = "createUser"
        /\ call.pc = "hash"
        /\ calls' = [calls EXCEPT ![c] = Idle]
        /\ Saved(Append(users, newUser), accessRequests)
        /\ nextId' = nextId + 1
        /\ resp' = Response("createUser", call.token, nextId, 201)
        /\ UNCHANGED <<writesLeft, tokens, diskOk>>

\* Guard, getUserById, validators, uniqueness checks and validateGroupIds, up
\* to the call of bcrypt.hash.
updateUser_begin ==
  \E c \in 1..MaxCalls, token \in tokens, id \in UserIdInputs, patch \in UserPatchInputs :
    /\ FreeSlot(c)
    /\ writesLeft > 0
    /\ updateUserStatus(token, id, patch) = 200
    /\ calls' = [calls EXCEPT ![c] = UserCall("updateUser", token, id, patch)]
    /\ writesLeft' = writesLeft - 1
    /\ UNCHANGED <<users, groups, policies, accessRequests, disk, nextId, clock, tokens,
                   diskOk, resp>>

\* The hash is there: DatabaseService.updateUser and the response.  When the
\* user is gone updateUser returns null, reading updatedUser!.id throws and
\* the catch block answers 500.
updateUser_updateUser ==
  \E c \in 1..MaxCalls :
    LET call == calls[c]
    IN  /\ call.op = "updateUser"
        /\ call.pc = "hash"
        /\ calls' = [calls EXCEPT ![c] = Idle]
        /\ IF getUserById(call.id) = Undefined
           THEN NotFound /\ UNCHANGED resp
           ELSE /\ Saved(updateUser(users, call.id, call.body, now), accessRequests)
                /\ resp' = Response("updateUser", call.token, call.id, 200)
        /\ UNCHANGED <<nextId, writesLeft, tokens, diskOk>>

ConcUserInit == Constructed /\ writesLeft = MaxWrites

ConcUserNext ==
  \/ AuthController_login
  \/ createUser_begin
  \/ createUser_createUser
  \/ updateUser_begin
  \/ updateUser_updateUser

ConcUserSpec == ConcUserInit /\ [][ConcUserNext]_vars

----------------------------------------------------------------------------
(* An approval in progress beside other calls that change the requesting   *)
(* user: processAccessRequest runs await by await, and between its steps   *)
(* an updateUser call or a step of another approval may run.               *)

ConcGrantInit == Constructed /\ writesLeft = MaxWorkflowWrites

ConcGrantNext ==
  \/ AuthController_login
  \/ AccessRequestController_createAccessRequest
  \/ UserController_updateUser
  \/ processAccessRequest_begin
  \/ processAccessRequest_updateAccessRequest
  \/ processAccessRequest_getUserById
  \/ processAccessRequest_updateUser

ConcGrantSpec == ConcGrantInit /\ [][ConcGrantNext]_vars

----------------------------------------------------------------------------
(* The cascades of deleteGroup and deletePolicy, await by await, in a      *)
(* process that may stop and start again between any two steps.  The       *)
(* handler removes the record, which saveData writes out, and then walks   *)
(* the array getAllUsers (getAllGroups) returned, which is the store's own *)
(* array, calling updateUser (updateGroup) on each record that lists the   *)
(* id; every such call writes the file again.  next is the index the loop  *)
(* examines next.                                                          *)

CascadeCall(op, pc, token, id, next) ==
  [op |-> op, pc |-> pc, token |-> token, id |-> id, next |-> next]

\* A DatabaseService write to users, groups or policies, and its saveData.
SavedTables(us, gs, ps) ==
  /\ users' = us
  /\ groups' = gs
  /\ policies' = ps
  /\ saveData(us, gs, ps, accessRequests)
  /\ clock' = clock + 1
  /\ UNCHANGED accessRequests

\* The first index from k on whose record lists id in field f; beyond the
\* table when there is none.
nextListing(table, f, id, k) ==
  IF \E i \in k..Len(table) : includes(table[i][f], id)
  THEN CHOOSE i \in k..Len(table) :
         /\ includes(table[i][f], id)
         /\ \A j \in k..(i - 1) : ~includes(table[j][f], id)
  ELSE Len(table) + 1

\* Guard and the call of DatabaseService.deleteGroup.
deleteGroup_begin ==
  \E c \in 1..MaxCalls, token \in tokens, id \in GroupIdInputs :
    /\ FreeSlot(c)
    /\ writesLeft > 0
    /\ deleteGroupStatus(token, id) = 200
    /\ SavedTables(users, deleteById(groups, id), policies)
    /\ calls' = [calls EXCEPT ![c] = CascadeCall("deleteGroup", "getAllUsers", token, id, 1)]
    /\ writesLeft' = writesLeft - 1
    /\ UNCHANGED <<nextId, tokens, diskOk, resp>>

\* The call of getAllUsers.
deleteGroup_getAllUsers ==
  \E c \in 1..MaxCalls :
    LET call == calls[c]
    IN  /\ call.op = "deleteGroup"
        /\ call.pc = "getAllUsers"
        /\ calls' = [calls EXCEPT ![c] = [call EXCEPT !.pc = "updateUser"]]
        /\ UNCHANGED <<users, groups, policies, accessRequests, disk, nextId, clock,
                       writesLeft, tokens, diskOk, resp>>

\* The loop up to its next call of updateUser, or to the response.
deleteGroup_updateUser ==
  \E c \in 1..MaxCalls :
    LET call == calls[c]
        i == nextListing(users, "groups", call.id, call.next)
    IN  /\ call.op = "deleteGroup"
        /\ call.pc = "updateUser"
        /\ IF i <= Len(users)
           THEN /\ SavedTables(updateUser(users, users[i].id,
                                          [groups |-> filterOut(users[i].groups, call.id)],
                                          now),
                               groups, policies)
                /\ calls' = [calls EXCEPT ![c] = [call EXCEPT !.next = i + 1]]
                /\ UNCHANGED resp
           ELSE /\ calls' = [calls EXCEPT ![c] = Idle]
                /\ resp' = Response("deleteGroup", call.token, call.id, 200)
                /\ UNCHANGED <<users, groups, policies, accessRequests, disk, clock>>
        /\ UNCHANGED <<nextId, writesLeft, tokens, diskOk>>

\* Guard and the call of DatabaseService.deletePolicy.
deletePolicy_begin ==
  \E c \in 1..MaxCalls, token \in tokens, id \in PolicyIdInputs :
    /\ FreeSlot(c)
    /\ writesLeft > 0
    /\ deletePolicyStatus(token, id) = 200
    /\ SavedTables(users, groups, deleteById(policies, id))
    /\ calls' = [calls EXCEPT ![c] = CascadeCall("deletePolicy", "getAllGroups", token, id, 1)]
    /\ writesLeft' = writesLeft - 1
    /\ UNCHANGED <<nextId, tokens, diskOk, resp>>

\* The call of getAllGroups.
deletePolicy_getAllGroups ==
  \E c \in 1..MaxCalls :
    LET call == calls[c]
    IN  /\ call.op = "deletePolicy"
        /\ call.pc = "getAllGroups"
        /\ calls' = [calls EXCEPT ![c] = [call EXCEPT !.pc = "updateGroup"]]
        /\ UNCHANGED <<users, groups, policies, accessRequests, disk, nextId, clock,
                       writesLeft, tokens, diskOk, resp>>

\* The loop up to its next call of updateGroup, or to the response.
deletePolicy_updateGroup ==
  \E c \in 1..MaxCalls :
    LET call == calls[c]
        i == nextListing(groups, "policies", call.id, call.next)
    IN  /\ call.op = "deletePolicy"
        /\ call.pc = "updateGroup"
        /\ IF i <= Len(groups)
           THEN /\ SavedTables(users,
                               updateGroup(groups, groups[i].id,
                                           [policies |-> filterOut(groups[i].policies, call.id)],
                                           now),
                               policies)
                /\ calls' = [calls EXCEPT ![c] = [call EXCEPT !.next = i + 1]]
                /\ UNCHANGED resp
           ELSE /\ calls' = [calls EXCEPT ![c] = Idle]
                /\ resp' = Response("deletePolicy", call.token, call.id, 200)
                /\ UNCHANGED <<users, groups, policies, accessRequests, disk, clock>>
        /\ UNCHANGED <<nextId, writesLeft, tokens, diskOk>>

CascadeInit == Constructed /\ writesLeft = MaxWrites

CascadeNext ==
  \/ Restart
  \/ AuthController_login
  \/ UserController_createUser
  \/ deleteGroup_begin
  \/ deleteGroup_getAllUsers
  \/ deleteGroup_updateUser
  \/ deletePolicy_begin
  \/ deletePolicy_getAllGroups
  \/ deletePolicy_updateGroup

CascadeSpec == CascadeInit /\ [][CascadeNext]_vars

----------------------------------------------------------------------------
(* Overlapping deleteUser calls.  The guard reads the caller from the      *)
(* store and is awaited; the handler runs in a continuation, where it      *)
(* compares the caller's id with the id of the path and calls              *)
(* DatabaseService.deleteUser.  Another call in progress may run between   *)
(* the guard's read and the delete.                                        *)

DeleteCall(token, id) ==
  [op |-> "deleteUser", pc |-> "deleteUser", token |-> token, id |-> id]

\* authMiddleware and the guard, which finds the caller and allows.
deleteUser_begin ==
  \E c \in 1..MaxCalls, token \in tokens, id \in UserIdInputs :
    /\ FreeSlot(c)
    /\ writesLeft > 0
    /\ deleteUserStatus(token, id) = 200
    /\ calls' = [calls EXCEPT ![c] = DeleteCall(token, id)]
    /\ writesLeft' = writesLeft - 1
    /\ UNCHANGED <<users, groups, policies, accessRequests, disk, nextId, clock, tokens,
                   diskOk, resp>>

\* The call of DatabaseService.deleteUser, then the response: 404 when the
\* user is no longer there.
deleteUser_deleteUser ==
  \E c \in 1..MaxCalls :
    LET call == calls[c]
    IN  /\ call.op = "deleteUser"
        /\ IF getUserById(call.id) # Undefined
           THEN /\ Saved(deleteById(users, call.id), accessRequests)
                /\ resp' = Response("deleteUser", call.token, call.id, 200)
           ELSE NotFound /\ UNCHANGED resp
        /\ calls' = [calls EXCEPT ![c] = Idle]
        /\ UNCHANGED <<nextId, writesLeft, tokens, diskOk>>

ConcDeleteInit == Constructed /\ writesLeft = MaxWorkflowWrites

ConcDeleteNext ==
  \/ AuthController_login
  \/ UserController_createUser
  \/ UserController_updateUser
  \/ deleteUser_begin
  \/ deleteUser_deleteUser

ConcDeleteSpec == ConcDeleteInit /\ [][ConcDeleteNext]_vars

----------------------------------------------------------------------------
(* Properties of the permission guard.                                     *)

\* Required permissions: the sixteen seeded pairs and spellings of them that
\* differ in letter case only.
RequiredPermissions ==
  {Perm(r, a) : r \in Range(Resources) \cup {"Users"}, a \in Range(Actions) \cup {"Delete"}}

\* Some existing group among u's groups lists some existing policy that holds
\* a permission equal to p.
Reachable(u, p) ==
  \E g \in Range(groups) :
    /\ g.id \in Range(u.groups)
    /\ \E k \in Range(policies) :
         /\ k.id \in Range(g.policies)
         /\ p \in Range(k.permissions)

\* C1: for a user whose role is not admin, the guard allows a permission
\* exactly when it is reachable through an existing group and an existing
\* policy by exact, case-sensitive match; a user with no groups is denied.
C1_AuthorizeIffReachable ==
  \A u \in Range(users) :
    u.role # "admin" =>
      \A p \in RequiredPermissions :
        /\ checkUserPermission(u.id, p) <=> Reachable(u, p)
        /\ \A token \in tokens :
             token.userId = u.id =>
               checkPermission(token, p) = IF Reachable(u, p) THEN 200 ELSE 403
        /\ u.groups = <<>> => ~checkUserPermission(u.id, p)

\* A user who is not an admin holds a token, is allowed users:read through a
\* group, and is denied the same pair spelled Users:read.
C1_Witness ==
  \E u \in Range(users), token \in tokens :
    /\ u.role # "admin"
    /\ token.userId = u.id
    /\ checkPermission(token, Perm("users", "read")) = 200
    /\ checkPermission(token, Perm("Users", "read")) = 403
    /\ checkPermission(token, Perm("users", "delete")) = 403

\* C2: a user whose role is admin is allowed every permission, whatever the
\* user's groups and the policies are, and whatever role the token carries.
C2_AdminAlwaysAllowed ==
  \A u \in Range(users) :
    u.role = "admin" =>
      \A p \in RequiredPermissions :
        /\ checkUserPermission(u.id, p)
        /\ \A token \in tokens : token.userId = u.id => checkPermission(token, p) = 200

\* An admin with a token belongs to no group and is still allowed.
C2_Witness ==
  \E u \in Range(users), token \in tokens :
    /\ u.role = "admin"
    /\ token.userId = u.id
    /\ u.groups = <<>>
    /\ checkPermission(token, Perm("policies", "delete")) = 200

----------------------------------------------------------------------------
(* Referential integrity and the cascades of deleteGroup and deletePolicy. *)

\* The step is a completed call of the handler op (every completed write
\* advances the clock).
Completed(op) == clock' # clock /\ resp'.op = op

\* Number of occurrences of x in seq.
Count(seq, x) == Cardinality({i \in 1..Len(seq) : seq[i] = x})

\* rec with the fields in names blanked, to compare the remaining fields.
Except(rec, names) == [f \in DOMAIN rec \ names |-> rec[f]]

\* C3: with no call in progress, every id in every user's groups is the id of
\* an existing group.
C3_UserGroupsExist ==
  \A u \in Range(users) : \A g \in Range(u.groups) : getGroupById(g) # Undefined

\* C4: with no call in progress, every id in every group's policies is the id
\* of an existing policy.
C4_GroupPoliciesExist ==
  \A g \in Range(groups) : \A p \in Range(g.policies) : getPolicyById(p) # Undefined

\* After a policy was deleted, updateGroup wrote a non-empty list of policies.
C4_Witness ==
  /\ resp.op = "updateGroup"
  /\ Len(policies) < Len(createDefaultPolicies(AdminPolicyId, 1))
  /\ \E g \in Range(groups) : g.id = resp.id /\ g.policies # <<>>

\* C5: a completed deleteGroup(G) leaves G in no user's groups and removes
\* nothing else: every user's groups keep their other ids in order, the other
\* fields of users, the other groups, the policies and the access requests
\* (those for G included) are unchanged.
C5_DeleteGroupFrame ==
  [][Completed("deleteGroup") =>
       LET G == resp'.id
       IN  /\ Len(users') = Len(users)
           /\ \A i \in 1..Len(users) :
                /\ G \notin Range(users'[i].groups)
                /\ users'[i].groups = SelectSeq(users[i].groups, LAMBDA x : x # G)
                /\ Except(users'[i], {"groups", "updatedAt"})
                     = Except(users[i], {"groups", "updatedAt"})
           /\ idsOf(groups') = idsOf(groups) \ {G}
           /\ \A g \in Range(groups) : g.id # G => g \in Range(groups')
           /\ policies' = policies
           /\ accessRequests' = accessRequests]_vars

\* deleteGroup(G) has just pruned a user who keeps another membership, and a
\* request for G is still stored.
C5_Witness ==
  /\ resp.op = "deleteGroup"
  /\ getGroupById(resp.id) = Undefined
  /\ \E u \in Range(users) : u.updatedAt = clock /\ u.groups # <<>>
  /\ \E r \in Range(accessRequests) : r.groupId = resp.id

\* C6: a completed deletePolicy(P) leaves P in no group's policies and removes
\* nothing else: every group's policies keep their other ids in order, and
\* the users, the other policies and the access requests are unchanged.
C6_DeletePolicyFrame ==
  [][Completed("deletePolicy") =>
       LET P == resp'.id
       IN  /\ Len(groups') = Len(groups)
           /\ \A i \in 1..Len(groups) :
                /\ P \notin Range(groups'[i].policies)
                /\ groups'[i].policies = SelectSeq(groups[i].policies, LAMBDA x : x # P)
                /\ Except(groups'[i], {"policies", "updatedAt"})
                     = Except(groups[i], {"policies", "updatedAt"})
           /\ idsOf(policies') = idsOf(policies) \ {P}
           /\ \A k \in Range(policies) : k.id # P => k \in Range(policies')
           /\ users' = users
           /\ accessRequests' = accessRequests]_vars

\* deletePolicy(P) has just pruned a group that keeps another policy.
C6_Witness ==
  /\ resp.op = "deletePolicy"
  /\ getPolicyById(resp.id) = Undefined
  /\ \E g \in Range(groups) : g.updatedAt = clock /\ g.policies # <<>>

----------------------------------------------------------------------------
(* The access-request workflow, calls not overlapping.                     *)

\* Every caller the guard lets through gets 400 for a stored request that is
\* not pending.
C8_Rejected ==
  \A token \in tokens, r \in Range(accessRequests), status \in StatusInputs :
    (checkPermission(token, Perm("access-requests", "update")) = 200 /\ r.status # "pending")
      => processAccessRequestStatus(token, r.id, status) = 400

\* A completed processAccessRequest found its request pending.
C8_OnlyPendingIsProcessed ==
  Completed("processAccessRequest") =>
    \E r \in Range(accessRequests) : r.id = resp'.id /\ r.status = "pending"

\* C8: processAccessRequest on a request that is not pending is answered with
\* an error and changes nothing: the handler completes, and so writes the
\* request or a user's groups, only for a request that was pending.
C8_NonPendingIsRejected ==
  []C8_Rejected /\ [][C8_OnlyPendingIsProcessed]_vars

\* An approved request whose user holds the membership once, and a second
\* approval of it is answered with 400.
C8_Witness ==
  \E token \in tokens, r \in Range(accessRequests), u \in Range(users) :
    /\ r.status = "approved"
    /\ u.id = r.userId
    /\ Count(u.groups, r.groupId) = 1
    /\ processAccessRequestStatus(token, r.id, "approved") = 400

\* C9: a completed approval leaves the request approved, processedAt set to
\* the time of the call, processedBy set to the caller, and the request's
\* groupId exactly once in the groups of the requesting user.
C9_ApprovalAddsOnce ==
  [][Completed("processAccessRequest") =>
       \A r \in Range(accessRequests') :
         (r.id = resp'.id /\ r.status = "approved") =>
           /\ r.processedAt = clock'
           /\ r.processedBy = resp'.caller
           /\ \A u \in Range(users') :
                u.id = r.userId => Count(u.groups, r.groupId) = 1]_vars

----------------------------------------------------------------------------
(* The access-request workflow, calls overlapping.                         *)

\* C7: no step moves a stored request out of approved or denied; the status
\* of a request changes only from pending to approved or to denied.
C7_ProcessedIsTerminal ==
  [][\A r \in Range(accessRequests), q \in Range(accessRequests') :
       (r.id = q.id /\ r.status # q.status) =>
         /\ r.status = "pending"
         /\ q.status \in {"approved", "denied"}]_vars

\* The step in which call c of processAccessRequest calls updateUser.
GrantStep(c) ==
  /\ calls[c].op = "processAccessRequest"
  /\ calls[c].pc = "updateUser"
  /\ calls'[c] = Idle

\* C10: processAccessRequest changes a user's groups only when its own update
\* of the request took effect in the store (updateAccessRequest returned the
\* updated request, not null), and only the groups of the request's userId.
C10_GrantOnlyAfterTransition ==
  [][\A c \in 1..MaxCalls :
       GrantStep(c) =>
         \A i \in 1..Len(users) :
           users'[i].groups # users[i].groups =>
             /\ calls[c].updatedRequest # <<>>
             /\ calls[c].updatedRequest[1].status = "approved"
             /\ users[i].id = calls[c].accessRequest[1].userId]_vars

----------------------------------------------------------------------------
(* Creation and denial of access requests, calls not overlapping.          *)

\* C11: a completed denial of a request that was pending leaves it denied,
\* with processedAt the time of the call and processedBy the caller, and
\* leaves the users, groups and policies tables as they were.
C11_DenyFrame ==
  [][Completed("processAccessRequest") =>
       \A r \in Range(accessRequests') :
         (r.id = resp'.id /\ r.status # "approved") =>
           /\ r.status = "denied"
           /\ r.processedAt = clock'
           /\ r.processedBy = resp'.caller
           /\ users' = users
           /\ groups' = groups
           /\ policies' = policies]_vars

\* The last call denied a request; its user exists and is not in the group.
C11_Witness ==
  /\ resp.op = "processAccessRequest"
  /\ \E r \in Range(accessRequests), u \in Range(users) :
       /\ r.id = resp.id
       /\ r.status = "denied"
       /\ r.processedAt = clock
       /\ u.id = r.userId
       /\ ~includes(u.groups, r.groupId)

\* C12: no two stored requests with status pending have the same userId and
\* the same groupId.
C12_OnePendingPerPair ==
  \A i, j \in 1..Len(accessRequests) :
    ( /\ accessRequests[i].status = "pending"
      /\ accessRequests[j].status = "pending"
      /\ accessRequests[i].userId = accessRequests[j].userId
      /\ accessRequests[i].groupId = accessRequests[j].groupId ) => i = j

\* The caller of token has a processed request for group g, g exists, the
\* guard lets the caller through and no request of the caller for g is pending.
MayReRequest(token, g) ==
  /\ checkPermission(token, Perm("access-requests", "create")) = 200
  /\ getGroupById(g) # Undefined
  /\ \E r \in Range(accessRequests) :
       r.userId = token.userId /\ r.groupId = g /\ r.status \in {"approved", "denied"}
  /\ ~\E r \in Range(accessRequests) :
       r.userId = token.userId /\ r.groupId = g /\ r.status = "pending"

\* The caller of token is stored and g is among the caller's groups.
IsMember(token, g) ==
  \E u \in Range(users) : u.id = token.userId /\ includes(u.groups, g)

\* C13 as stated: after a request of a user for an existing group was approved
\* or denied, a new createAccessRequest of that user for that group succeeds.
C13_ReRequestSucceeds ==
  \A token \in tokens, g \in idsOf(groups) :
    MayReRequest(token, g) => createAccessRequestStatus(token, g) = 201

\* A completed createAccessRequest appends one pending request of the caller.
C13_StoresPending ==
  Completed("createAccessRequest") =>
    /\ Len(accessRequests') = Len(accessRequests) + 1
    /\ SubSeq(accessRequests', 1, Len(accessRequests)) = accessRequests
    /\ accessRequests'[Len(accessRequests')].id = resp'.id
    /\ accessRequests'[Len(accessRequests')].userId = resp'.caller
    /\ accessRequests'[Len(accessRequests')].status = "pending"

\* C13, amended: after a request of a user for an existing group was approved
\* or denied, a new createAccessRequest of that user for that group succeeds
\* and stores a new pending request, provided the user is not a member of the
\* group at the time of the call.
C13_ReRequestSucceedsUnlessMember ==
  /\ [](\A token \in tokens, g \in idsOf(groups) :
          (MayReRequest(token, g) /\ ~IsMember(token, g))
            => createAccessRequestStatus(token, g) = 201)
  /\ [][C13_StoresPending]_vars

\* The last call stored a pending request for a pair that has a denied one.
C13_Witness ==
  /\ resp.op = "createAccessRequest"
  /\ \E r, q \in Range(accessRequests) :
       /\ q.id = resp.id
       /\ q.status = "pending"
       /\ r.status = "denied"
       /\ r.userId = q.userId
       /\ r.groupId = q.groupId

\* A caller the guard lets through gets 404 for a group id that resolves to
\* no group and 400 for an existing group the caller is a member of.
C14_Rejected ==
  \A token \in tokens, g \in GroupIdInputs :
    checkPermission(token, Perm("access-requests", "create")) = 200 =>
      /\ getGroupById(g) = Undefined => createAccessRequestStatus(token, g) = 404
      /\ (getGroupById(g) # Undefined /\ IsMember(token, g))
           => createAccessRequestStatus(token, g) = 400

\* A completed createAccessRequest named an existing group the caller was not
\* a member of.
C14_OnlyValidIsStored ==
  Completed("createAccessRequest") =>
    LET newRequest == accessRequests'[Len(accessRequests')]
    IN  /\ getGroupById(newRequest.groupId) # Undefined
        /\ ~\E u \in Range(users) :
             u.id = newRequest.userId /\ includes(u.groups, newRequest.groupId)

\* C14: createAccessRequest is rejected, with 404 when the groupId resolves to
\* no group and with 400 when the caller's groups contain it, and the handler
\* stores a request only for an existing group the caller is not a member of.
C14_MissingGroupOrMemberIsRejected ==
  []C14_Rejected /\ [][C14_OnlyValidIsStored]_vars

\* A user who became a member through an approval gets 400 for that group and
\* 404 for an id that names no group.
C14_Witness ==
  \E token \in tokens, r \in Range(accessRequests) :
    /\ r.status = "approved"
    /\ r.userId = token.userId
    /\ IsMember(token, r.groupId)
    /\ createAccessRequestStatus(token, r.groupId) = 400
    /\ createAccessRequestStatus(token, nextId) = 404

\* processedAt and processedBy are set exactly on the processed requests.
C15_ProcessedFields ==
  \A r \in Range(accessRequests) :
    /\ r.processedAt # Undefined <=> r.status \in {"approved", "denied"}
    /\ r.processedBy # Undefined <=> r.status \in {"approved", "denied"}

\* A completed createAccessRequest stored a pending, unprocessed request of
\* the caller.
C15_NewRequest ==
  Completed("createAccessRequest") =>
    LET newRequest == accessRequests'[Len(accessRequests')]
    IN  /\ newRequest.id = resp'.id
        /\ newRequest.status = "pending"
        /\ newRequest.userId = resp'.caller
        /\ newRequest.processedAt = Undefined
        /\ newRequest.processedBy = Undefined

\* C15: a newly created request is pending, carries the caller's id as userId
\* and has neither processedAt nor processedBy; in every state a request has
\* processedAt and processedBy exactly when it is approved or denied.
C15_RequestFields ==
  []C15_ProcessedFields /\ [][C15_NewRequest]_vars

\* A denied request stamped by its processor beside a request created by the
\* last call.
C15_Witness ==
  /\ resp.op = "createAccessRequest"
  /\ \E r, q \in Range(accessRequests) :
       /\ r.status = "denied"
       /\ r.processedAt # Undefined
       /\ r.processedBy \in idsOf(users)
       /\ q.id = resp.id
       /\ q.userId = resp.caller
       /\ q.processedAt = Undefined

----------------------------------------------------------------------------
(* Uniqueness of names and validation of references.                       *)

\* a and b are equal ignoring letter case.
SameIgnoringCase(a, b) == toLowerCase(a) = toLowerCase(b)

UserCollides(body, us) ==
  \E u \in Range(us) : u.username = body.username \/ SameIgnoringCase(u.email, body.email)

NameCollides(body, table) ==
  \E e \in Range(table) : SameIgnoringCase(e.name, body.name)

\* A caller the guard lets through gets 409 for a colliding create.
C16_Conflict ==
  \A token \in tokens :
    /\ \A body \in CreateUserInputs :
         (checkPermission(token, Perm("users", "create")) = 200 /\ UserCollides(body, users))
           => createUserStatus(token, body) = 409
    /\ \A body \in CreateGroupInputs :
         (checkPermission(token, Perm("groups", "create")) = 200 /\ NameCollides(body, groups))
           => createGroupStatus(token, body) = 409
    /\ \A body \in CreatePolicyInputs :
         (checkPermission(token, Perm("policies", "create")) = 200
            /\ NameCollides(body, policies))
           => createPolicyStatus(token, body) = 409

\* A completed create stored a record that collided with none before it.
C16_OnlyUniqueIsStored ==
  /\ Completed("createUser") => ~UserCollides(users'[Len(users')], users)
  /\ Completed("createGroup") => ~NameCollides(groups'[Len(groups')], groups)
  /\ Completed("createPolicy") => ~NameCollides(policies'[Len(policies')], policies)

\* C16: creating a user with an existing username or with an existing email
\* ignoring case, a group or a policy with an existing name ignoring case, is
\* answered with 409 and stores nothing.
C16_CollidingCreateIsConflict ==
  []C16_Conflict /\ [][C16_OnlyUniqueIsStored]_vars

\* Group Dev and user bob are stored; creating group dev, and creating user
\* Bob with email BOB@example.com, are answered with 409.
C16_Witness ==
  \E token \in tokens :
    /\ \E g \in Range(groups) : g.name = "Dev"
    /\ \E u \in Range(users) : u.username = "bob"
    /\ createGroupStatus(token, [name |-> "dev", policies |-> <<>>]) = 409
    /\ createUserStatus(token, [username |-> "Bob", email |-> "BOB@example.com",
                                role |-> "maintainer", groups |-> <<>>]) = 409

\* Another entity of the table than id has this name, ignoring case.
OtherHasName(table, id, name) ==
  \E e \in Range(table) : e.id # id /\ SameIgnoringCase(e.name, name)

\* Another user than id has this username, or this email ignoring case.
OtherUserCollides(id, patch) ==
  \E u \in Range(users) :
    /\ u.id # id
    /\ \/ "username" \in DOMAIN patch /\ u.username = patch.username
       \/ "email" \in DOMAIN patch /\ SameIgnoringCase(u.email, patch.email)

\* C17: an update the guard lets through, of an existing entity, is answered
\* with 409 exactly when its new username, email or name collides with that of
\* a different entity; a value that collides with the entity itself only, its
\* own value in another letter case included, is not a conflict.
C17_UpdateExcludesSelf ==
  \A token \in tokens :
    /\ \A id \in idsOf(users), patch \in UserPatchInputs :
         checkPermission(token, Perm("users", "update")) = 200 =>
           (updateUserStatus(token, id, patch) = 409 <=> OtherUserCollides(id, patch))
    /\ \A id \in idsOf(groups), patch \in GroupPatchInputs :
         checkPermission(token, Perm("groups", "update")) = 200 =>
           (updateGroupStatus(token, id, patch) = 409
              <=> ("name" \in DOMAIN patch /\ OtherHasName(groups, id, patch.name)))
    /\ \A id \in idsOf(policies), patch \in PolicyPatchInputs :
         checkPermission(token, Perm("policies", "update")) = 200 =>
           (updatePolicyStatus(token, id, patch) = 409
              <=> ("name" \in DOMAIN patch /\ OtherHasName(policies, id, patch.name)))

\* Some id of the list resolves to no record of the table.
HasDangling(list, table) == \E x \in Range(list) : x \notin idsOf(table)

\* A write the guard lets through whose list of references holds an id that
\* resolves to nothing is answered with 400 (with 409 when the create also
\* collides on a name), and the ids reported are exactly those that resolve
\* to nothing.
C18_Rejected ==
  /\ \A gl \in GroupListInputs :
       Range(validateGroupIds(gl).invalidIds) = {x \in Range(gl) : x \notin idsOf(groups)}
  /\ \A pl \in PolicyListInputs :
       Range(validatePolicyIds(pl).invalidIds) = {x \in Range(pl) : x \notin idsOf(policies)}
  /\ \A token \in tokens :
       /\ \A body \in CreateUserInputs :
            ( /\ checkPermission(token, Perm("users", "create")) = 200
              /\ HasDangling(body.groups, groups) )
              => createUserStatus(token, body) = IF UserCollides(body, users) THEN 409 ELSE 400
       /\ \A id \in idsOf(users), gl \in GroupListInputs :
            ( /\ checkPermission(token, Perm("users", "update")) = 200
              /\ HasDangling(gl, groups) )
              => updateUserStatus(token, id, [groups |-> gl]) = 400
       /\ \A body \in CreateGroupInputs :
            ( /\ checkPermission(token, Perm("groups", "create")) = 200
              /\ HasDangling(body.policies, policies) )
              => createGroupStatus(token, body)
                   = IF NameCollides(body, groups) THEN 409 ELSE 400
       /\ \A id \in idsOf(groups), pl \in PolicyListInputs :
            ( /\ checkPermission(token, Perm("groups", "update")) = 200
              /\ HasDangling(pl, policies) )
              => updateGroupStatus(token, id, [policies |-> pl]) = 400

\* A completed create or update wrote no list with an id that resolved to
\* nothing.
C18_OnlyResolvedIsStored ==
  /\ Completed("createUser") => ~HasDangling(users'[Len(users')].groups, groups)
  /\ Completed("createGroup") => ~HasDangling(groups'[Len(groups')].policies, policies)
  /\ Completed("updateUser") =>
       \A i \in 1..Len(users) :
         users'[i].groups # users[i].groups => ~HasDangling(users'[i].groups, groups)
  /\ Completed("updateGroup") =>
       \A i \in 1..Len(groups) :
         groups'[i].policies # groups[i].policies
           => ~HasDangling(groups'[i].policies, policies)

\* C18: a createUser or updateUser whose groups, or a createGroup or
\* updateGroup whose policies, hold an id that resolves to nothing is rejected
\* as a whole, valid ids in the list notwithstanding, and the ids named are
\* exactly the offending ones.
C18_DanglingReferenceIsRejected ==
  []C18_Rejected /\ [][C18_OnlyResolvedIsStored]_vars

\* After a group was deleted, a list of every stored group id followed by the
\* deleted id is rejected for updateUser, and the deleted id alone is named.
C18_Witness ==
  \E token \in tokens :
    LET gl == Append([i \in 1..Len(groups) |-> groups[i].id], resp.id)
    IN  /\ resp.op = "deleteGroup"
        /\ Len(gl) > 1
        /\ validateGroupIds(gl).invalidIds = <<resp.id>>
        /\ updateUserStatus(token, token.userId, [groups |-> gl]) = 400

----------------------------------------------------------------------------
(* Visibility of access requests.                                          *)

\* C19: a caller whose stored role is admin is returned every request by the
\* list operation and may view each; a caller whose stored role is not admin
\* is returned only the requests with the caller's userId, and viewing or
\* deleting a request of another user is answered with 403.
C19_ScopedByStoredRole ==
  \A token \in tokens, u \in Range(users) :
    (u.id = token.userId /\ checkPermission(token, Perm("access-requests", "read")) = 200) =>
      IF u.role = "admin"
      THEN /\ getAllAccessRequestsData(token) = accessRequests
           /\ \A r \in Range(accessRequests) : getAccessRequestByIdStatus(token, r.id) = 200
      ELSE /\ \A r \in Range(getAllAccessRequestsData(token)) : r.userId = u.id
           /\ \A r \in Range(accessRequests) :
                r.userId # u.id =>
                  /\ getAccessRequestByIdStatus(token, r.id) = 403
                  /\ checkPermission(token, Perm("access-requests", "delete")) = 200
                       => deleteAccessRequestStatus(token, r.id) = 403

----------------------------------------------------------------------------
(* Durability.                                                             *)

\* C20: once a mutation has reported success, the snapshot on disk is the
\* serialisation of the four tables in memory.
C20_SnapshotEqualsMemory ==
  resp.status \in {200, 201} => disk = stringify(users, groups, policies, accessRequests)

\* C21: a mutation whose durable write fails does not report success: no
\* handler completes with a 200 or 201 while the file system refuses the write.
C21_FailedWriteIsNotSuccess ==
  [][~diskOk => ~(clock' # clock /\ resp'.status \in {200, 201})]_vars

----------------------------------------------------------------------------
(* Startup.                                                                *)

\* C22: a startup that finds a user in the file creates no user, policy or
\* group and changes no user's groups, whatever the file's policies and
\* groups are.
C22_SeedingOnlyOnce ==
  [][Restart /\ Len(loadData.users) > 0 =>
       /\ idsOf(users') = idsOf(loadData.users)
       /\ idsOf(policies') = idsOf(loadData.policies)
       /\ idsOf(groups') = idsOf(loadData.groups)
       /\ \A i \in 1..Len(users') : users'[i].groups = loadData.users[i].groups]_vars

----------------------------------------------------------------------------
(* Deletion of users.                                                      *)

\* A caller that passes the guard of DELETE /users/:id and names its own id
\* is answered 400.
C23_Rejected ==
  \A token \in tokens :
    checkPermission(token, Perm("users", "delete")) = 200 =>
      deleteUserStatus(token, token.userId) = 400

\* A deleteUser that completes removed a user other than its caller, and the
\* caller's record is still in the table.
C23_CallerIsKept ==
  [][Completed("deleteUser") =>
       resp'.id # resp'.caller /\ resp'.caller \in idsOf(users')]_vars

\* C23: deleteUser with the caller's own user id is rejected (400 "Cannot
\* delete your own account") and changes nothing, for admins and for
\* non-admins that hold users:delete.
C23_SelfDeleteIsRejected == []C23_Rejected /\ C23_CallerIsKept

\* An admin and a non-admin holder of users:delete are both refused their own
\* deletion.
C23_Witness ==
  /\ \E token \in tokens :
       /\ getUserById(token.userId) # Undefined
       /\ users[getUserById(token.userId)].role = "admin"
       /\ deleteUserStatus(token, token.userId) = 400
  /\ \E token \in tokens :
       /\ getUserById(token.userId) # Undefined
       /\ users[getUserById(token.userId)].role # "admin"
       /\ deleteUserStatus(token, token.userId) = 400

----------------------------------------------------------------------------
(* The guard's two refusals.                                               *)

\* The guard answers 401 exactly when the token's userId resolves to no user,
\* and 403 exactly when the user exists, is not an admin and reaches the
\* permission through no group and policy.
C24_Refusals ==
  \A token \in tokens, p \in RequiredPermissions :
    LET found == {u \in Range(users) : u.id = token.userId}
    IN  /\ checkPermission(token, p) = 401 <=> found = {}
        /\ checkPermission(token, p) = 403 <=>
             \E u \in found : u.role # "admin" /\ ~Reachable(u, p)

\* A token whose user is gone is answered 401 by the guarded handlers.
C24_UnresolvedIsUnauthenticated ==
  \A token \in tokens :
    token.userId \notin idsOf(users) =>
      /\ \A id \in UserIdInputs : deleteUserStatus(token, id) = 401
      /\ \A id \in GroupIdInputs :
           /\ deleteGroupStatus(token, id) = 401
           /\ createAccessRequestStatus(token, id) = 401
      /\ \A id \in PolicyIdInputs : deletePolicyStatus(token, id) = 401
      /\ \A id \in AccessRequestIdInputs :
           /\ processAccessRequestStatus(token, id, "approved") = 401
           /\ deleteAccessRequestStatus(token, id) = 401
      /\ \A body \in CreateUserInputs : createUserStatus(token, body) = 401

\* A handler that completes was called by a user who was in the table.
C24_GuardedDoesNotRun ==
  [][clock' # clock /\ resp'.status \in {200, 201} => resp'.caller \in idsOf(users)]_vars

\* C24: an identity that does not resolve is refused with 401, never 403, and
\* the operation does not run; 403 is the answer only for an existing
\* non-admin user without the permission.
C24_UnauthenticatedNotForbidden ==
  /\ [](C24_Refusals /\ C24_UnresolvedIsUnauthenticated)
  /\ C24_GuardedDoesNotRun

\* One token belongs to a user deleted after the login and is refused with
\* 401; another belongs to an existing user who is refused with 403 for a
\* permission that none of the user's policies holds.
C24_Witness ==
  /\ \E token \in tokens :
       /\ token.userId \notin idsOf(users)
       /\ checkPermission(token, Perm("users", "delete")) = 401
  /\ \E token \in tokens, p \in RequiredPermissions :
       /\ token.userId \in idsOf(users)
       /\ checkPermission(token, p) = 403

----------------------------------------------------------------------------
(* Deletions without cascade.                                              *)

\* deleteUser removes the record of the user it names and nothing else.
C25_DeleteUser ==
  [][Completed("deleteUser") =>
       /\ users' = SelectSeq(users, LAMBDA u : u.id # resp'.id)
       /\ groups' = groups
       /\ policies' = policies
       /\ accessRequests' = accessRequests]_vars

\* deleteAccessRequest removes the request it names and nothing else.
C25_DeleteAccessRequest ==
  [][Completed("deleteAccessRequest") =>
       /\ accessRequests' = SelectSeq(accessRequests, LAMBDA r : r.id # resp'.id)
       /\ users' = users
       /\ groups' = groups
       /\ policies' = policies]_vars

\* C25: deleting a user leaves groups, policies and every access request as
\* they were, also the requests made or processed by that user; deleting an
\* access request leaves every user's groups as they were, also the
\* membership an approval of that request had granted.
C25_DeleteHasNoCascade == C25_DeleteUser /\ C25_DeleteAccessRequest

\* A request of a deleted user is still in the table, and the admin kept the
\* membership of Users after the approved request that granted it was deleted.
C25_Witness ==
  /\ resp.op = "deleteAccessRequest"
  /\ \E r \in Range(accessRequests) : r.userId \notin idsOf(users)
  /\ \E u \in Range(users) : u.id = AdminId /\ includes(u.groups, UsersGroupId)
  /\ ~\E r \in Range(accessRequests) : r.userId = AdminId

----------------------------------------------------------------------------
(* The guard is a query.                                                   *)

\* C26: a call of the guard, allowed or denied, leaves the four tables and
\* the file as they were, and the decision it returned is the decision the
\* guard and checkUserPermission give again in the state it leaves.
C26_AuthorizeIsPure ==
  [][resp'.op = "checkPermission" /\ resp' # resp =>
       /\ store' = store
       /\ disk' = disk
       /\ \A token \in tokens, p \in RequiredGuardInputs :
            token.userId = resp'.caller /\ p = resp'.id =>
              /\ checkPermission(token, p)' = resp'.status
              /\ checkUserPermission(token.userId, p)' = resp'.allowed]_vars

\* The guard has denied a call with 403 while the file lags behind the
\* tables: a flush would have changed the file.
C26_Witness ==
  /\ resp.op = "checkPermission"
  /\ resp.status = 403
  /\ ~resp.allowed
  /\ disk # stringify(users, groups, policies, accessRequests)

----------------------------------------------------------------------------
(* Partial updates.                                                        *)

\* table2 is table with the record of id patched: the fields of patch take
\* the patch's values, updatedAt is t, every other field and every other
\* record is as in table.
PatchedBy(table, table2, id, patch, t) ==
  /\ Len(table2) = Len(table)
  /\ \A i \in 1..Len(table) :
       IF table[i].id # id THEN table2[i] = table[i]
       ELSE /\ DOMAIN table2[i] = DOMAIN table[i]
            /\ \A f \in DOMAIN table[i] :
                 table2[i][f] = IF f = "updatedAt" THEN t
                                ELSE IF f \in DOMAIN patch THEN patch[f]
                                ELSE table[i][f]

C27_UpdateUser ==
  [][Completed("updateUser") =>
       /\ \E patch \in UserPatchInputs : PatchedBy(users, users', resp'.id, patch, clock')
       /\ UNCHANGED <<groups, policies, accessRequests>>]_vars

C27_UpdateGroup ==
  [][Completed("updateGroup") =>
       /\ \E patch \in GroupPatchInputs : PatchedBy(groups, groups', resp'.id, patch, clock')
       /\ UNCHANGED <<users, policies, accessRequests>>]_vars

C27_UpdatePolicy ==
  [][Completed("updatePolicy") =>
       /\ \E patch \in PolicyPatchInputs :
            PatchedBy(policies, policies', resp'.id, patch, clock')
       /\ UNCHANGED <<users, groups, accessRequests>>]_vars

\* C27: an update of a user, a group or a policy sets the supplied fields and
\* updatedAt; id, createdAt, the fields not supplied and all other records
\* keep their values.
C27_PartialUpdate == C27_UpdateUser /\ C27_UpdateGroup /\ C27_UpdatePolicy

\* A group has just been updated, after a user who belongs to a group was
\* updated and kept the groups.
C27_Witness ==
  /\ resp.op = "updateGroup"
  /\ \E g \in Range(groups) : g.id = resp.id /\ g.updatedAt = clock /\ g.createdAt < clock
  /\ \E u \in Range(users) : u.updatedAt > u.createdAt /\ u.groups # <<>>

----------------------------------------------------------------------------
(* Save and load.                                                          *)

\* The records of a table as the file would hold them, in no order.
Saved_records(table) == {toJSON(table[i]) : i \in 1..Len(table)}

\* C28: a startup on the file that holds the store yields the same users,
\* groups, policies and access requests, with the same ids, field values and
\* timestamps.
C28_RoundTrip ==
  [][Restart =>
       /\ Saved_records(users') = Saved_records(users)
       /\ Saved_records(groups') = Saved_records(groups)
       /\ Saved_records(policies') = Saved_records(policies)
       /\ Saved_records(accessRequests') = Saved_records(accessRequests)]_vars

----------------------------------------------------------------------------
(* Permission enums.                                                       *)

\* C29: createPolicy with a permission whose resource or action is outside
\* the enums is rejected, and no stored policy holds such a permission.
C29_InvalidPermissionIsRejected ==
  /\ \A token \in tokens, body \in CreatePolicyInputs :
       (\E perm \in Range(body.permissions) : ~validatePermission(perm)) =>
         createPolicyStatus(token, body) \notin {200, 201}
  /\ \A k \in Range(policies) : \A perm \in Range(k.permissions) : validatePermission(perm)

----------------------------------------------------------------------------
(* The seeded store.                                                       *)

\* The Groups and Policies tables are those of the first startup.
Seeded ==
  /\ groups = initializeDatabase(getDefaultData, AdminId, 1).groups
  /\ policies = initializeDatabase(getDefaultData, AdminId, 1).policies

\* C30: with the seeded groups and policies, the seeded admin is allowed
\* policies:delete, and a non-admin user whose only group is Users is allowed
\* users:read, groups:read, access-requests:create and access-requests:read
\* and no other pair.
C30_SeededScenario ==
  Seeded =>
    \A u \in Range(users) :
      /\ u.id = AdminId /\ u.role = "admin" =>
           /\ checkUserPermission(u.id, Perm("policies", "delete"))
           /\ \A token \in tokens :
                token.userId = u.id =>
                  checkPermission(token, Perm("policies", "delete")) = 200
      /\ u.role # "admin" /\ u.groups = <<UsersGroupId>> =>
           \A p \in RequiredPermissions :
             /\ checkUserPermission(u.id, p) <=>
                  p \in {Perm("users", "read"), Perm("groups", "read"),
                         Perm("access-requests", "create"),
                         Perm("access-requests", "read")}
             /\ \A token \in tokens :
                  token.userId = u.id =>
                    checkPermission(token, p) = IF checkUserPermission(u.id, p) THEN 200 ELSE 403

\* A user created into the Users group has logged in and is refused
\* policies:delete, while the admin is not.
C30_Witness ==
  /\ Seeded
  /\ \E u \in Range(users), token \in tokens :
       /\ u.role # "admin"
       /\ u.groups = <<UsersGroupId>>
       /\ token.userId = u.id
       /\ checkPermission(token, Perm("policies", "delete")) = 403
       /\ checkPermission(token, Perm("access-requests", "create")) = 200
  /\ \E token \in tokens :
       /\ token.userId = AdminId
       /\ checkPermission(token, Perm("policies", "delete")) = 200

----------------------------------------------------------------------------
(* Uniqueness of names.                                                    *)

\* C31: whatever the interleaving of createUser and updateUser calls, no two
\* users have the same username and no two have emails equal ignoring case.
C31_UniqueUsersUnderOverlap ==
  \A i, j \in 1..Len(users) :
    i # j =>
      /\ users[i].username # users[j].username
      /\ toLowerCase(users[i].email) # toLowerCase(users[j].email)

\* C32: with non-overlapping calls, no two groups have names equal ignoring
\* case and no two policies have names equal ignoring case.
C32_UniqueGroupAndPolicyNames ==
  /\ \A i, j \in 1..Len(groups) :
       i # j => toLowerCase(groups[i].name) # toLowerCase(groups[j].name)
  /\ \A i, j \in 1..Len(policies) :
       i # j => toLowerCase(policies[i].name) # toLowerCase(policies[j].name)

\* A group Dev and a policy Audit were created, and renaming another group
\* to dev or another policy to audit is answered 409.
C32_Witness ==
  \E g \in Range(groups), k \in Range(policies), token \in tokens :
    /\ g.name = "Dev"
    /\ k.name = "Audit"
    /\ \A id \in idsOf(groups) \ {g.id} : updateGroupStatus(token, id, [name |-> "dev"]) = 409
    /\ \A id \in idsOf(policies) \ {k.id} :
         updatePolicyStatus(token, id, [name |-> "audit"]) = 409
    /\ createGroupStatus(token, [name |-> "dev", policies |-> <<>>]) = 409

----------------------------------------------------------------------------
(* Enforcement of the guard.                                               *)

\* The permission each operation of the API requires.
OperationPermission(op) ==
  CASE op = "createUser" -> Perm("users", "create")
    [] op = "updateUser" -> Perm("users", "update")
    [] op = "deleteUser" -> Perm("users", "delete")
    [] op = "createGroup" -> Perm("groups", "create")
    [] op = "updateGroup" -> Perm("groups", "update")
    [] op = "deleteGroup" -> Perm("groups", "delete")
    [] op = "createPolicy" -> Perm("policies", "create")
    [] op = "updatePolicy" -> Perm("policies", "update")
    [] op = "deletePolicy" -> Perm("policies", "delete")
    [] op = "createAccessRequest" -> Perm("access-requests", "create")
    [] op = "processAccessRequest" -> Perm("access-requests", "update")
    [] op = "deleteAccessRequest" -> Perm("access-requests", "delete")

\* The user of id userId exists and is an admin or reaches p through an
\* existing group and an existing policy.
Allows(userId, p) ==
  \E u \in Range(users) : u.id = userId /\ (u.role = "admin" \/ Reachable(u, p))

----------------------------------------------------------------------------
(* Updates of calls in progress together.                                  *)

\* The call in slot c makes its updateUser step and finds the user.
GrantWrites(c) ==
  /\ calls[c] # Idle
  /\ calls[c].op = "processAccessRequest"
  /\ calls[c].pc = "updateUser"
  /\ calls'[c] = Idle
  /\ getUserById(calls[c].requestUser[1].id) # Undefined

\* C34: no update is lost between overlapping calls: the approval, which
\* supplies no groups of its own, adds the requested group to the groups the
\* user has when it writes, and so keeps what a call that completed in the
\* meantime stored there.
C34_NoLostUpdate ==
  [][\A c \in 1..MaxCalls :
       GrantWrites(c) =>
         LET i == getUserById(calls[c].requestUser[1].id)
         IN  /\ users'[i].groups = Append(users[i].groups, calls[c].accessRequest[1].groupId)
             /\ disk'.users[i].groups = users'[i].groups]_vars

----------------------------------------------------------------------------
(* The snapshot a stopped process leaves.                                  *)

\* C35: whenever the process may stop, the tables a restart loads from the
\* file hold no user with the id of a missing group and no group with the
\* id of a missing policy.
C35_SnapshotIsConsistent ==
  LET data == loadData
  IN  /\ \A i \in 1..Len(data.users) :
           \A g \in Range(data.users[i].groups) : g \in idsOf(data.groups)
      /\ \A i \in 1..Len(data.groups) :
           \A p \in Range(data.groups[i].policies) : p \in idsOf(data.policies)

----------------------------------------------------------------------------
(* What processing keeps of a request.                                     *)

\* C36: a completed processAccessRequest leaves the id, userId, groupId and
\* requestedAt of the request as they were, and its reason too when the
\* processor gave none (the stored reason is then not the processor's, so it
\* has to be the requester's).
C36_ProcessFrame ==
  [][Completed("processAccessRequest") =>
       \A i \in 1..Len(accessRequests) :
         accessRequests[i].id = resp'.id =>
           LET old == accessRequests[i]
               new == accessRequests'[i]
           IN  /\ new.id = old.id
               /\ new.userId = old.userId
               /\ new.groupId = old.groupId
               /\ new.requestedAt = old.requestedAt
               /\ new.reason = {} => old.reason = {}]_vars

----------------------------------------------------------------------------
(* The guard and the role a token states.                                  *)

TokenRoles == {"admin", "maintainer", "user"}

\* C37: the guard's decision is the same whatever role the token states, and
\* a caller whose stored role is not admin and who reaches a permission
\* through no existing group and policy is refused it with 403, by the guard
\* and so by the delete handlers that need it.
C37_DecisionFromStoreOnly ==
  \A token \in tokens, p \in RequiredPermissions :
    LET u == getUserById(token.userId)
    IN  /\ \A role \in TokenRoles :
             checkPermission([token EXCEPT !.role = role], p) = checkPermission(token, p)
        /\ (u # Undefined /\ users[u].role # "admin" /\ ~Reachable(users[u], p)) =>
             /\ checkPermission(token, p) = 403
             /\ p = Perm("users", "delete") =>
                  \A id \in UserIdInputs : deleteUserStatus(token, id) = 403
             /\ p = Perm("groups", "delete") =>
                  \A id \in GroupIdInputs : deleteGroupStatus(token, id) = 403
             /\ p = Perm("policies", "delete") =>
                  \A id \in PolicyIdInputs : deletePolicyStatus(token, id) = 403

\* A token that states admin belongs to a user whose stored role is no
\* longer admin and whose group Administrators is gone: the last call
\* removed that path, and the guard refuses users:delete.
C37_Witness ==
  /\ resp.op \in {"deleteGroup", "updateUser"}
  /\ \E token \in tokens :
       LET u == getUserById(token.userId)
       IN  /\ token.role = "admin"
           /\ u # Undefined
           /\ users[u].role # "admin"
           /\ ~Reachable(users[u], Perm("users", "delete"))
           /\ checkPermission(token, Perm("users", "delete")) = 403

----------------------------------------------------------------------------
(* The Users table after seeding.                                          *)

\* C38: the Users table is never empty, whether calls overlap or not.
C38_UsersNeverEmpty == Len(users) > 0

----------------------------------------------------------------------------
(* What a holder of the User Policy alone can change.                      *)

\* The permissions u reaches through existing groups and policies.
PermissionsOf(u) == {p \in RequiredPermissions : Reachable(u, p)}

\* u is not an admin and reaches exactly the permissions of the seeded User
\* Policy.
OnlyUserPolicy(u) ==
  /\ u.role # "admin"
  /\ PermissionsOf(u) = Range(UserPolicyPermissions)

\* C39: a call that changes the store and whose caller holds the User Policy
\* alone is a createAccessRequest: it leaves users, groups and policies as
\* they were and appends one pending request with the caller's userId.
C39_NoPrivilegeGain ==
  [][clock' # clock =>
       \A i \in 1..Len(users) :
         (users[i].id = resp'.caller /\ OnlyUserPolicy(users[i])) =>
           /\ resp'.op = "createAccessRequest"
           /\ users' = users
           /\ groups' = groups
           /\ policies' = policies
           /\ Len(accessRequests') = Len(accessRequests) + 1
           /\ SubSeq(accessRequests', 1, Len(accessRequests)) = accessRequests
           /\ accessRequests'[Len(accessRequests')].userId = resp'.caller
           /\ accessRequests'[Len(accessRequests')].status = "pending"]_vars

\* A user who holds the User Policy alone has filed a request for the
\* Administrators group; the guard refuses that user users:update.
C39_Witness ==
  /\ resp.op = "createAccessRequest"
  /\ \E token \in tokens, u \in Range(users), r \in Range(accessRequests) :
       /\ token.userId = u.id
       /\ u.id = resp.caller
       /\ OnlyUserPolicy(u)
       /\ r.id = resp.id
       /\ r.userId = u.id
       /\ r.groupId = AdministratorsId
       /\ checkPermission(token, Perm("users", "update")) = 403
====
